---------------------------- MODULE Spec2Model ----------------------------
(***************************************************************************)
(* The conversation extraction of the ChatGPT exporter's content script    *)
(* (src/content/dom/selectors.ts and src/content/dom/parser.ts): locating  *)
(* the message elements of the page, parsing each into a message, and      *)
(* assembling the extraction result.                                       *)
(*                                                                         *)
(* A JavaScript string is a TLA+ string; its character at position i is    *)
(* the one-character string Ch(s, i).                                      *)
(***************************************************************************)
EXTENDS Integers, Sequences, FiniteSets, TLC

(***************************************************************************)
(* String primitives (JavaScript String methods used by the code).         *)
(***************************************************************************)
Min(S) == CHOOSE x \in S : \A y \in S : x <= y
Max(S) == CHOOSE x \in S : \A y \in S : x >= y

\* an optional value (JavaScript null or undefined against a value)
None == <<>>
Some(x) == <<x>>

\* s.charAt(i - 1)
Ch(s, i) == IF i \in 1..Len(s) THEN SubSeq(s, i, i) ELSE ""

\* the characters String.prototype.trim removes and \s matches
Whitespace == {" ", "\n", "\t", "\r", "\f"}

\* s.startsWith(p)
StartsWith(s, p) == Len(p) <= Len(s) /\ SubSeq(s, 1, Len(p)) = p

\* p occurs in s at the 1-based position i
OccursAt(s, p, i) == i >= 1 /\ i + Len(p) - 1 <= Len(s) /\ SubSeq(s, i, i + Len(p) - 1) = p

\* s.includes(p)
Includes(s, p) == \E i \in 1..(Len(s) - Len(p) + 1) : OccursAt(s, p, i)

\* s.trim()
Trim(s) ==
    LET keep == {i \in 1..Len(s) : Ch(s, i) \notin Whitespace}
    IN  IF keep = {} THEN "" ELSE SubSeq(s, Min(keep), Max(keep))

\* s.substring(0, n)
Substring0(s, n) == SubSeq(s, 1, IF n < Len(s) THEN n ELSE Len(s))

\* the position of the first whitespace character of s, Len(s) + 1 when it
\* has none
FirstWhitespace(s) ==
    LET stops == {i \in 1..Len(s) : Ch(s, i) \in Whitespace}
    IN  IF stops = {} THEN Len(s) + 1 ELSE Min(stops)

\* the whitespace-separated tokens of s (Element.classList)
RECURSIVE Tokens(_)
Tokens(s) ==
    IF s = "" THEN <<>>
    ELSE IF Ch(s, 1) \in Whitespace THEN Tokens(SubSeq(s, 2, Len(s)))
    ELSE <<SubSeq(s, 1, FirstWhitespace(s) - 1)>> \o Tokens(SubSeq(s, FirstWhitespace(s), Len(s)))

\* the decimal numeral of a natural number (template literal `${index}`)
Digit(d) == SubSeq("0123456789", d + 1, d + 1)
RECURSIVE Decimal(_)
Decimal(n) == IF n < 10 THEN Digit(n) ELSE Decimal(n \div 10) \o Digit(n % 10)

\* the concatenation of a sequence of strings
RECURSIVE Concat(_)
Concat(ss) == IF ss = <<>> THEN "" ELSE Head(ss) \o Concat(Tail(ss))

\* x is an element of the sequence s
InSeq(s, x) == \E i \in 1..Len(s) : s[i] = x

\* the elements of a sequence without repetitions, first occurrences kept in
\* order (the insertion order of a JavaScript Set)
FirstOccurrences(s) == SelectSeq([i \in 1..Len(s) |-> i], LAMBDA i : ~InSeq(SubSeq(s, 1, i - 1), s[i]))
Pick(s, positions) == [k \in 1..Len(positions) |-> s[positions[k]]]
Dedup(s) == Pick(s, FirstOccurrences(s))

(***************************************************************************)
(* The DOM.  A heap maps node ids 1..n to nodes; Null is the null          *)
(* reference.  An element has a tag, a namespace flag (an SVG element's    *)
(* className is an SVGAnimatedString, not a string), attributes, and the   *)
(* ordered ids of its child nodes; a text node has character data.         *)
(***************************************************************************)
Null == 0

NoAttrs == [a \in {} |-> ""]

Element(tag, attrs) == [type |-> "element", tag |-> tag, svg |-> FALSE, attrs |-> attrs, data |-> ""]
SvgElement(tag, attrs) == [type |-> "element", tag |-> tag, svg |-> TRUE, attrs |-> attrs, data |-> ""]
Text(data) == [type |-> "text", tag |-> "#text", svg |-> FALSE, attrs |-> NoAttrs, data |-> data]

\* one line of an outline: a node at a depth; a document is written as the
\* outline of its nodes in document order
At(d, node) == [depth |-> d, node |-> node]

\* the elements of a set of numbers in increasing order
SortedSeq(S) == [i \in 1..Cardinality(S) |-> CHOOSE x \in S : Cardinality({y \in S : y < x}) = i - 1]

OutlineParent(outline, i) ==
    LET up == {j \in 1..(i - 1) : outline[j].depth = outline[i].depth - 1}
    IN  IF up = {} THEN Null ELSE Max(up)

\* the heap of an outline: node i is line i, its parent the nearest earlier
\* line one level up, its children the lines whose parent it is
HeapOf(outline) ==
    [i \in 1..Len(outline) |->
        [type   |-> outline[i].node.type,
         tag    |-> outline[i].node.tag,
         svg    |-> outline[i].node.svg,
         attrs  |-> outline[i].node.attrs,
         data   |-> outline[i].node.data,
         parent |-> OutlineParent(outline, i),
         kids   |-> SortedSeq({j \in (i + 1)..Len(outline) : OutlineParent(outline, j) = i})]]

DocumentElement == 1

IsElement(h, n) == h[n].type = "element"

\* node.parentElement
ParentElement(h, n) == h[n].parent

\* the nodes of the subtrees rooted at the nodes ns, in document order
RECURSIVE PreorderOf(_, _)
PreorderOf(h, ns) ==
    IF ns = <<>> THEN <<>>
    ELSE <<Head(ns)>> \o PreorderOf(h, h[Head(ns)].kids) \o PreorderOf(h, Tail(ns))

\* the element descendants of n in document order
DescendantElements(h, n) == SelectSeq(PreorderOf(h, h[n].kids), LAMBDA m : IsElement(h, m))

\* every element of the document in document order
DocumentElements(h) == SelectSeq(PreorderOf(h, <<DocumentElement>>), LAMBDA m : IsElement(h, m))

\* element.children
ChildElements(h, n) == SelectSeq(h[n].kids, LAMBDA m : IsElement(h, m))

RECURSIVE TextOf(_, _)
TextOf(h, ns) ==
    IF ns = <<>> THEN ""
    ELSE (IF h[Head(ns)].type = "text" THEN h[Head(ns)].data ELSE TextOf(h, h[Head(ns)].kids))
         \o TextOf(h, Tail(ns))

\* node.textContent
TextContent(h, n) == TextOf(h, <<n>>)

HasAttribute(h, n, a) == a \in DOMAIN h[n].attrs

\* element.getAttribute(a): the value, defined only when HasAttribute
GetAttribute(h, n, a) == h[n].attrs[a]

\* the value of attribute a, the empty string when it is absent (the
\* operand of a JavaScript || chain, where null and '' are both falsy)
AttrOrEmpty(h, n, a) == IF HasAttribute(h, n, a) THEN GetAttribute(h, n, a) ELSE ""

\* element.className of an HTML element
ClassName(h, n) == AttrOrEmpty(h, n, "class")

\* element.classList.contains(c)
ClassListContains(h, n, c) == InSeq(Tokens(ClassName(h, n)), c)

\* [class*="part"]
ClassHas(h, n, part) == HasAttribute(h, n, "class") /\ Includes(GetAttribute(h, n, "class"), part)

\* element.querySelector(sel): the first of the elements that match, Null
\* when there is none
FirstOf(ns) == IF ns = <<>> THEN Null ELSE Head(ns)

(***************************************************************************)
(* Serialisation (element.innerHTML).  Attributes are written in the       *)
(* order AttrOrder; the texts of the model hold no character that the      *)
(* serialiser escapes.                                                     *)
(***************************************************************************)
AttrOrder == <<"class", "id", "data-testid", "data-message-author-role", "data-message-id",
               "data-thinking", "data-collapsed", "data-formula", "data-latex", "data-value",
               "display", "type", "style", "encoding">>

VoidTags == {"br"}

AttrsHTML(h, n) ==
    Concat([i \in 1..Len(AttrOrder) |->
        IF HasAttribute(h, n, AttrOrder[i])
        THEN " " \o AttrOrder[i] \o "=\"" \o GetAttribute(h, n, AttrOrder[i]) \o "\""
        ELSE ""])

RECURSIVE OuterHTMLOf(_, _)
OuterHTMLOf(h, ns) ==
    IF ns = <<>> THEN ""
    ELSE (IF h[Head(ns)].type = "text" THEN h[Head(ns)].data
          ELSE "<" \o h[Head(ns)].tag \o AttrsHTML(h, Head(ns)) \o ">"
               \o (IF h[Head(ns)].tag \in VoidTags THEN ""
                   ELSE OuterHTMLOf(h, h[Head(ns)].kids) \o "</" \o h[Head(ns)].tag \o ">"))
         \o OuterHTMLOf(h, Tail(ns))

\* element.innerHTML
InnerHTML(h, n) == OuterHTMLOf(h, h[n].kids)

(***************************************************************************)
(* selectors.ts: the page URL.                                             *)
(***************************************************************************)
\* the character class [a-zA-Z0-9-]
IdChars ==
    {"a", "b", "c", "d", "e", "f", "g", "h", "i", "j", "k", "l", "m",
     "n", "o", "p", "q", "r", "s", "t", "u", "v", "w", "x", "y", "z",
     "A", "B", "C", "D", "E", "F", "G", "H", "I", "J", "K", "L", "M",
     "N", "O", "P", "Q", "R", "S", "T", "U", "V", "W", "X", "Y", "Z",
     "0", "1", "2", "3", "4", "5", "6", "7", "8", "9", "-"}

\* the hosts of SELECTORS.urlPattern:
\* /^https:\/\/(chat\.openai\.com|chatgpt\.com)\/c\/[a-zA-Z0-9-]+/
UrlPatternHosts == {"chat.openai.com", "chatgpt.com"}

\* a faulty isConversationPage that accepts every address
isConversationPageAnywhere(href) == TRUE

\* SELECTORS.urlPattern.test(window.location.href)
isConversationPage(href) ==
    \E host \in UrlPatternHosts :
        /\ StartsWith(href, "https://" \o host \o "/c/")
        /\ Ch(href, Len("https://" \o host \o "/c/") + 1) \in IdChars

\* the longest run of characters of IdChars that starts at position i
IdRun(s, i) ==
    LET stops == {j \in i..Len(s) : Ch(s, j) \notin IdChars}
    IN  SubSeq(s, i, (IF stops = {} THEN Len(s) + 1 ELSE Min(stops)) - 1)

\* href.match(/\/c\/([a-zA-Z0-9-]+)/): group 1 of the leftmost match, None
\* when there is no match
getConversationIdFromUrl(href) ==
    LET starts == {i \in 1..Len(href) : OccursAt(href, "/c/", i) /\ IdRun(href, i + 3) # ""}
    IN  IF starts = {} THEN None ELSE Some(IdRun(href, Min(starts) + 3))

(***************************************************************************)
(* selectors.ts: findAllMessageElements.  Each strategy is the list of     *)
(* elements its query yields on the document h.                            *)
(***************************************************************************)
\* document.querySelectorAll('article')
Strategy1(h) == SelectSeq(DocumentElements(h), LAMBDA n : h[n].tag = "article")

\* document.querySelectorAll('[data-testid^="conversation-turn"]')
Strategy2(h) ==
    SelectSeq(DocumentElements(h),
              LAMBDA n : StartsWith(AttrOrEmpty(h, n, "data-testid"), "conversation-turn"))

\* document.querySelectorAll('[data-message-author-role]')
Strategy3(h) == SelectSeq(DocumentElements(h), LAMBDA n : HasAttribute(h, n, "data-message-author-role"))

\* document.querySelector('main')
MainElement(h) == FirstOf(SelectSeq(DocumentElements(h), LAMBDA n : h[n].tag = "main"))

\* the text length above which strategy 4 keeps an element
MinContentLength == 20

\* e matches ':scope > div > div > div' below scope
IsScopeDivDivDiv(h, scope, e) ==
    /\ h[e].tag = "div"
    /\ ParentElement(h, e) # Null /\ h[ParentElement(h, e)].tag = "div"
    /\ ParentElement(h, ParentElement(h, e)) # Null
    /\ h[ParentElement(h, ParentElement(h, e))].tag = "div"
    /\ ParentElement(h, ParentElement(h, ParentElement(h, e))) = scope

\* main.querySelectorAll(':scope > div > div > div') filtered by text length
Strategy4In(h, main) ==
    IF main = Null THEN <<>>
    ELSE SelectSeq(DescendantElements(h, main),
                   LAMBDA e : IsScopeDivDivDiv(h, main, e) /\ Len(TextContent(h, e)) > MinContentLength)

Strategy4(h) == Strategy4In(h, MainElement(h))

\* document.querySelectorAll('.prose, .markdown, [class*="prose"], [class*="markdown"]')
ContentElements(h) ==
    SelectSeq(DocumentElements(h),
              LAMBDA n : \/ ClassListContains(h, n, "prose")
                         \/ ClassListContains(h, n, "markdown")
                         \/ ClassHas(h, n, "prose")
                         \/ ClassHas(h, n, "markdown"))

\* el.parentElement?.parentElement
GrandParent(h, n) == IF ParentElement(h, n) = Null THEN Null ELSE ParentElement(h, ParentElement(h, n))

\* the grandparents of the elements els, in order, where there is one
GrandParents(h, els) == SelectSeq([i \in 1..Len(els) |-> GrandParent(h, els[i])], LAMBDA g : g # Null)

\* the set of grandparents of the content elements, in insertion order
Strategy5(h) == Dedup(GrandParents(h, ContentElements(h)))

StrategyYield(h, k) ==
    CASE k = 1 -> Strategy1(h)
      [] k = 2 -> Strategy2(h)
      [] k = 3 -> Strategy3(h)
      [] k = 4 -> Strategy4(h)
      [] k = 5 -> Strategy5(h)

\* a faulty findAllMessageElements whose first strategy does not return: the
\* articles are the result only when the second strategy finds nothing
findAllMessageElementsFallingThrough(h) ==
    IF Len(Strategy2(h)) > 0 THEN [elements |-> Strategy2(h), evaluated |-> <<1, 2>>]
    ELSE IF Len(Strategy1(h)) > 0 THEN [elements |-> Strategy1(h), evaluated |-> <<1, 2>>]
    ELSE IF Len(Strategy3(h)) > 0 THEN [elements |-> Strategy3(h), evaluated |-> <<1, 2, 3>>]
    ELSE IF Len(Strategy4(h)) > 0 THEN [elements |-> Strategy4(h), evaluated |-> <<1, 2, 3, 4>>]
    ELSE [elements |-> Strategy5(h), evaluated |-> <<1, 2, 3, 4, 5>>]

\* findAllMessageElements(): the returned elements, and the strategies whose
\* queries ran, in the order they ran
findAllMessageElements(h) ==
    IF Len(Strategy1(h)) > 0 THEN [elements |-> Strategy1(h), evaluated |-> <<1>>]
    ELSE IF Len(Strategy2(h)) > 0 THEN [elements |-> Strategy2(h), evaluated |-> <<1, 2>>]
    ELSE IF Len(Strategy3(h)) > 0 THEN [elements |-> Strategy3(h), evaluated |-> <<1, 2, 3>>]
    ELSE IF Len(Strategy4(h)) > 0 THEN [elements |-> Strategy4(h), evaluated |-> <<1, 2, 3, 4>>]
    ELSE [elements |-> Strategy5(h), evaluated |-> <<1, 2, 3, 4, 5>>]

(***************************************************************************)
(* selectors.ts: getMessageRole and getMessageContent.                     *)
(***************************************************************************)
\* the length of the innerHTML prefix that the role heuristic reads
RoleMarkupPrefix == 500

\* element.className + ' ' + (element.innerHTML || '').substring(0, 500);
\* the className of an SVG element converts to "[object SVGAnimatedString]"
RoleHaystack(h, e) ==
    (IF h[e].svg THEN "[object SVGAnimatedString]" ELSE ClassName(h, e))
    \o " " \o Substring0(InnerHTML(h, e), RoleMarkupPrefix)

\* window.getComputedStyle(element).backgroundColor values
BackgroundColors == {"rgba(0, 0, 0, 0)", "rgb(52, 53, 65)"}

\* the last two checks of getMessageRole, on the class-and-markup text
RoleByHeuristics(hay, bgColor) ==
    IF Includes(hay, "user") \/ Includes(hay, "human") THEN "user"
    ELSE IF Includes(hay, "assistant") \/ Includes(hay, "gpt") \/ Includes(hay, "ai") THEN "assistant"
    ELSE IF bgColor # "" /\ bgColor # "rgba(0, 0, 0, 0)" THEN "unknown"
    ELSE "unknown"

\* element.querySelector('[data-message-author-role]')
NestedRoleElement(h, e) ==
    FirstOf(SelectSeq(DescendantElements(h, e), LAMBDA n : HasAttribute(h, n, "data-message-author-role")))

\* the second check of getMessageRole, on the first descendant that carries
\* a role attribute
RoleByNested(h, e, nested, bgColor) ==
    IF nested # Null /\ GetAttribute(h, nested, "data-message-author-role") = "user" THEN "user"
    ELSE IF nested # Null /\ GetAttribute(h, nested, "data-message-author-role") = "assistant" THEN "assistant"
    ELSE RoleByHeuristics(RoleHaystack(h, e), bgColor)

\* a faulty getMessageRole that reads the class names and the markup before
\* the role attributes
getMessageRoleByClassFirst(h, e, bgColor) ==
    IF RoleByHeuristics(RoleHaystack(h, e), bgColor) # "unknown"
    THEN RoleByHeuristics(RoleHaystack(h, e), bgColor)
    ELSE IF HasAttribute(h, e, "data-message-author-role")
            /\ GetAttribute(h, e, "data-message-author-role") \in {"user", "assistant"}
    THEN GetAttribute(h, e, "data-message-author-role")
    ELSE RoleByNested(h, e, NestedRoleElement(h, e), bgColor)

\* getMessageRole(element), bgColor being the computed background colour
getMessageRole(h, e, bgColor) ==
    IF HasAttribute(h, e, "data-message-author-role") /\ GetAttribute(h, e, "data-message-author-role") = "user"
    THEN "user"
    ELSE IF /\ HasAttribute(h, e, "data-message-author-role")
            /\ GetAttribute(h, e, "data-message-author-role") = "assistant"
    THEN "assistant"
    ELSE RoleByNested(h, e, NestedRoleElement(h, e), bgColor)

\* the selectors getMessageContent tries, in order
ContentSelectorCount == 6
MatchesContentSelector(h, n, k) ==
    CASE k = 1 -> ClassListContains(h, n, "markdown")
      [] k = 2 -> ClassListContains(h, n, "prose")
      [] k = 3 -> ClassHas(h, n, "markdown")
      [] k = 4 -> ClassHas(h, n, "prose")
      [] k = 5 -> ClassHas(h, n, "text-base")
      [] k = 6 -> h[n].tag = "div" /\ ClassHas(h, n, "whitespace")

\* element.querySelector(selectors[k - 1])
ContentBySelector(h, e, k) ==
    FirstOf(SelectSeq(DescendantElements(h, e), LAMBDA n : MatchesContentSelector(h, n, k)))

\* getMessageContent(element)
getMessageContent(h, e) ==
    LET hits == {k \in 1..ContentSelectorCount : ContentBySelector(h, e, k) # Null}
    IN  IF hits # {} THEN ContentBySelector(h, e, Min(hits))
        ELSE IF Len(Trim(TextContent(h, e))) > 0 THEN e
        ELSE Null

(***************************************************************************)
(* Regular expressions of the shapes the code uses.  A pattern is a        *)
(* sequence of atoms: a literal, \s*, a captured alternation of literals,  *)
(* a captured [^...]+, a captured single character of a class and [...]+, *)
(* \s+, the end of the string, a captured [...]+ and \s*(?![...]).  In     *)
(* every pattern of the code a greedy atom is followed by a character it   *)
(* excludes and no alternative is a prefix of another, so the leftmost     *)
(* match needs no backtracking; \s*(?![...]) gives back one whitespace     *)
(* character when the character after the run is one it must not precede.  *)
(* The atoms of the patterns of pdf.ts: ^ and $ of a multi-line pattern,   *)
(* \s*$ (the longest run of whitespace that ends at the end of a line),    *)
(* [...]{n,}, a captured [^...]*, [\s\S]+? before a literal, and           *)
(* ([A-Z]+)([A-Z][a-z]) (the run of capitals gives back its last one).     *)
(***************************************************************************)
Lit(s) == [t |-> "lit", s |-> s]
WsStar == [t |-> "ws"]
Alt(alts) == [t |-> "alt", alts |-> alts]
NotPlus(ex) == [t |-> "not", ex |-> ex]
OneOf(set) == [t |-> "one", set |-> set]
InPlus(set) == [t |-> "in", set |-> set]
WsPlus == [t |-> "wsp"]
AtEnd == [t |-> "end"]
CapturedInPlus(set) == [t |-> "inc", set |-> set]
WsStarNotBefore(set) == [t |-> "wsnot", set |-> set]
LineStart == [t |-> "bol"]
LineEnd == [t |-> "eol"]
WsStarLineEnd == [t |-> "wseol"]
AtLeast(n, set) == [t |-> "min", n |-> n, set |-> set]
NotStar(ex) == [t |-> "notstar", ex |-> ex]
LazyUntil(lit) == [t |-> "until", s |-> lit]
CapitalsThenWord == [t |-> "caps"]

UpperCase ==
    {"A", "B", "C", "D", "E", "F", "G", "H", "I", "J", "K", "L", "M",
     "N", "O", "P", "Q", "R", "S", "T", "U", "V", "W", "X", "Y", "Z"}
LowerCase ==
    {"a", "b", "c", "d", "e", "f", "g", "h", "i", "j", "k", "l", "m",
     "n", "o", "p", "q", "r", "s", "t", "u", "v", "w", "x", "y", "z"}

\* the length of the longest run from position i of characters in S
RunIn(s, i, S) ==
    LET stops == {j \in i..Len(s) : Ch(s, j) \notin S}
    IN  (IF stops = {} THEN Len(s) + 1 ELSE Min(stops)) - i

\* the length of the longest run from position i of characters not in S
RunNotIn(s, i, S) ==
    LET stops == {j \in i..Len(s) : Ch(s, j) \in S}
    IN  (IF stops = {} THEN Len(s) + 1 ELSE Min(stops)) - i

NoMatch == [ok |-> FALSE, next |-> 0, groups |-> <<>>]

\* the line terminators of the texts of the model
LineTerminators == {"\n", "\r"}

\* position i of s is the start of a line, the end of a line
IsLineStart(s, i) == i = 1 \/ Ch(s, i - 1) \in LineTerminators
IsLineEnd(s, i) == i = Len(s) + 1 \/ Ch(s, i) \in LineTerminators

\* the lengths of the runs of whitespace from position i that end at the
\* end of a line
RunsToLineEnd(s, i) == {k \in 0..RunIn(s, i, Whitespace) : IsLineEnd(s, i + k)}

\* the first position from i on where lit occurs, 0 when there is none
FirstAt(s, lit, i) ==
    LET hits == {e \in i..Len(s) : OccursAt(s, lit, e)}
    IN  IF hits = {} THEN 0 ELSE Min(hits)

\* the match of the atoms k.. of pat at position i of s, the groups so far gs
RECURSIVE MatchFrom(_, _, _, _, _)
MatchFrom(s, pat, k, i, gs) ==
    IF k > Len(pat) THEN [ok |-> TRUE, next |-> i, groups |-> gs]
    ELSE LET a == pat[k]
         IN  CASE a.t = "lit" ->
                    IF OccursAt(s, a.s, i) THEN MatchFrom(s, pat, k + 1, i + Len(a.s), gs) ELSE NoMatch
               [] a.t = "ws" -> MatchFrom(s, pat, k + 1, i + RunIn(s, i, Whitespace), gs)
               [] a.t = "alt" ->
                    LET hits == {j \in 1..Len(a.alts) : OccursAt(s, a.alts[j], i)}
                    IN  IF hits = {} THEN NoMatch
                        ELSE MatchFrom(s, pat, k + 1, i + Len(a.alts[Min(hits)]),
                                       Append(gs, a.alts[Min(hits)]))
               [] a.t = "not" ->
                    IF RunNotIn(s, i, a.ex) = 0 THEN NoMatch
                    ELSE MatchFrom(s, pat, k + 1, i + RunNotIn(s, i, a.ex),
                                   Append(gs, SubSeq(s, i, i + RunNotIn(s, i, a.ex) - 1)))
               [] a.t = "in" ->
                    IF RunIn(s, i, a.set) = 0 THEN NoMatch
                    ELSE MatchFrom(s, pat, k + 1, i + RunIn(s, i, a.set), gs)
               [] a.t = "one" ->
                    IF i <= Len(s) /\ Ch(s, i) \in a.set
                    THEN MatchFrom(s, pat, k + 1, i + 1, Append(gs, Ch(s, i)))
                    ELSE NoMatch
               [] a.t = "wsp" ->
                    IF RunIn(s, i, Whitespace) = 0 THEN NoMatch
                    ELSE MatchFrom(s, pat, k + 1, i + RunIn(s, i, Whitespace), gs)
               [] a.t = "end" -> IF i = Len(s) + 1 THEN MatchFrom(s, pat, k + 1, i, gs) ELSE NoMatch
               [] a.t = "inc" ->
                    IF RunIn(s, i, a.set) = 0 THEN NoMatch
                    ELSE MatchFrom(s, pat, k + 1, i + RunIn(s, i, a.set),
                                   Append(gs, SubSeq(s, i, i + RunIn(s, i, a.set) - 1)))
               [] a.t = "wsnot" ->
                    IF Ch(s, i + RunIn(s, i, Whitespace)) \notin a.set
                    THEN MatchFrom(s, pat, k + 1, i + RunIn(s, i, Whitespace), gs)
                    ELSE IF RunIn(s, i, Whitespace) = 0 THEN NoMatch
                    ELSE MatchFrom(s, pat, k + 1, i + RunIn(s, i, Whitespace) - 1, gs)
               [] a.t = "bol" ->
                    IF IsLineStart(s, i) THEN MatchFrom(s, pat, k + 1, i, gs) ELSE NoMatch
               [] a.t = "eol" ->
                    IF IsLineEnd(s, i) THEN MatchFrom(s, pat, k + 1, i, gs) ELSE NoMatch
               [] a.t = "wseol" ->
                    IF RunsToLineEnd(s, i) = {} THEN NoMatch
                    ELSE MatchFrom(s, pat, k + 1, i + Max(RunsToLineEnd(s, i)), gs)
               [] a.t = "min" ->
                    IF RunIn(s, i, a.set) < a.n THEN NoMatch
                    ELSE MatchFrom(s, pat, k + 1, i + RunIn(s, i, a.set), gs)
               [] a.t = "notstar" ->
                    MatchFrom(s, pat, k + 1, i + RunNotIn(s, i, a.ex),
                              Append(gs, SubSeq(s, i, i + RunNotIn(s, i, a.ex) - 1)))
               [] a.t = "until" ->
                    IF FirstAt(s, a.s, i + 1) = 0 THEN NoMatch
                    ELSE MatchFrom(s, pat, k + 1, FirstAt(s, a.s, i + 1) + Len(a.s), gs)
               [] a.t = "caps" ->
                    IF RunIn(s, i, UpperCase) < 2 \/ Ch(s, i + RunIn(s, i, UpperCase)) \notin LowerCase
                    THEN NoMatch
                    ELSE MatchFrom(s, pat, k + 1, i + RunIn(s, i, UpperCase) + 1,
                                   gs \o << SubSeq(s, i, i + RunIn(s, i, UpperCase) - 2),
                                            SubSeq(s, i + RunIn(s, i, UpperCase) - 1,
                                                   i + RunIn(s, i, UpperCase)) >>)

\* a replacement string: literal text and $k group references
Txt(s) == [g |-> 0, s |-> s]
Grp(k) == [g |-> k, s |-> ""]
Expand(rep, groups) ==
    Concat([j \in 1..Len(rep) |-> IF rep[j].g = 0 THEN rep[j].s ELSE groups[rep[j].g]])

\* the positions from i on where pat matches a non-empty text
MatchStarts(s, pat, i) ==
    {j \in i..Len(s) : MatchFrom(s, pat, 1, j, <<>>).ok /\ MatchFrom(s, pat, 1, j, <<>>).next > j}

\* s.replace(/pat/g, rep) from position i on: the text up to the leftmost
\* match, the expansion of the match, and the rest from the end of the match
RECURSIVE ReplaceFrom(_, _, _, _)
ReplaceAfter(s, pat, rep, i, m) ==
    SubSeq(s, i, m.at - 1) \o Expand(rep, m.groups) \o ReplaceFrom(s, pat, rep, m.next)
ReplaceFrom(s, pat, rep, i) ==
    IF MatchStarts(s, pat, i) = {} THEN SubSeq(s, i, Len(s))
    ELSE ReplaceAfter(s, pat, rep, i,
                      MatchFrom(s, pat, 1, Min(MatchStarts(s, pat, i)), <<>>)
                          @@ [at |-> Min(MatchStarts(s, pat, i))])

ReplaceAll(s, pat, rep) == ReplaceFrom(s, pat, rep, 1)

\* the substitutions applied one after the other (no substitution changes
\* the empty string)
RECURSIVE ApplyRules(_, _)
ApplyRules(s, rules) ==
    IF rules = <<>> \/ s = "" THEN s
    ELSE ApplyRules(ReplaceAll(s, Head(rules).pat, Head(rules).rep), Tail(rules))

Rule(pat, rep) == [pat |-> pat, rep |-> rep]

Letters == IdChars \ {"0", "1", "2", "3", "4", "5", "6", "7", "8", "9", "-"}
Digits == {"0", "1", "2", "3", "4", "5", "6", "7", "8", "9"}

(***************************************************************************)
(* parser.ts: cleanExtractedLatex, its substitutions in source order.      *)
(***************************************************************************)
BarCommands ==
    <<"frac", "left", "right", "sqrt", "sin", "cos", "tan", "text",
      "Rightarrow", "neq", "leq", "geq", "pi">>

OperatorNames == <<"frac", "sin", "cos", "tan", "log", "ln", "exp", "sqrt">>

FracOf12 == <<Txt("\\frac{"), Grp(1), Txt("}{"), Grp(2), Txt("}")>>

CleanExtractedLatexRules ==
    << Rule(<<Lit("|"), Alt(BarCommands)>>, <<Txt("\\"), Grp(1)>>),
       Rule(<<Lit("\\langle"), WsStar>>, <<Txt("{")>>),
       Rule(<<WsStar, Lit("\\rangle")>>, <<Txt("}")>>),
       Rule(<<Lit("\\backslash"), WsStar>>, <<Txt("\\")>>),
       Rule(<<Lit("\\f"), WsStar, Lit("r"), WsStar, Lit("a"), WsStar, Lit("c")>>,
            <<Txt("\\frac")>>),
       Rule(<<Lit("\\s"), WsStar, Lit("q"), WsStar, Lit("r"), WsStar, Lit("t")>>,
            <<Txt("\\sqrt")>>),
       Rule(<<Lit("\\t"), WsStar, Lit("e"), WsStar, Lit("x"), WsStar, Lit("t")>>,
            <<Txt("\\text")>>),
       Rule(<<Lit("\\{operatorname{"), Alt(OperatorNames), Lit("}}")>>, <<Txt("\\"), Grp(1)>>),
       Rule(<<Lit("{\\operatorname{"), Alt(OperatorNames), Lit("}")>>,
            <<Txt("\\"), Grp(1), Txt("{")>>),
       Rule(<<Lit("\\operatorname{"), Alt(OperatorNames), Lit("}")>>, <<Txt("\\"), Grp(1)>>),
       Rule(<<Lit("\\left\\{frac")>>, <<Txt("\\left(\\frac")>>),
       Rule(<<Lit("\\left{frac")>>, <<Txt("\\left(\\frac")>>),
       Rule(<<Lit("\\frac("), NotPlus({")"}), Lit(")("), NotPlus({")"}), Lit(")")>>, FracOf12),
       Rule(<<Lit("\\{frac{"), NotPlus({"}"}), Lit("}{"), NotPlus({"}"}), Lit("}}")>>, FracOf12),
       Rule(<<Lit("{frac{"), NotPlus({"}"}), Lit("}{"), NotPlus({"}"}), Lit("}")>>, FracOf12),
       Rule(<<Lit("right\\^"), OneOf(Digits)>>, <<Txt("\\right)^"), Grp(1)>>),
       Rule(<<Lit("}right^"), OneOf(Digits)>>, <<Txt("\\right)^"), Grp(1)>>),
       Rule(<<Lit("\\right}")>>, <<Txt("\\right)")>>),
       Rule(<<Lit("(right)")>>, <<Txt("\\right)")>>),
       Rule(<<Lit("\\mathrm{"), OneOf(Letters), Lit("}")>>, <<Grp(1)>>),
       Rule(<<Lit("\\wedge")>>, <<Txt("^")>>),
       Rule(<<Lit("\\^")>>, <<Txt("^")>>),
       Rule(<<Lit("\\underline{"), NotPlus({"}"}), Lit("}")>>, <<Grp(1)>>),
       Rule(<<Lit("\\boldsymbol{"), NotPlus({"}"}), Lit("}")>>, <<Grp(1)>>),
       Rule(<<Lit("\\quad"), WsStar>>, <<Txt(" ")>>),
       Rule(<<Lit("\\qquad"), WsStar>>, <<Txt("  ")>>),
       Rule(<<Lit("\\\\")>>, <<Txt(" ")>>) >>

cleanExtractedLatex(latex) == ApplyRules(latex, CleanExtractedLatexRules)

(***************************************************************************)
(* messages.ts: fixCorruptedLatexPatterns and cleanLatexContent, their     *)
(* substitutions in source order, and the closing of open braces.          *)
(***************************************************************************)
FixBarCommands == <<"frac", "left", "right", "sqrt", "sin", "cos", "tan", "text", "Rightarrow">>

FixCorruptedLatexPatternsRules ==
    << Rule(<<Lit("\\$")>>, <<Txt("$")>>),
       Rule(<<Lit("|"), Alt(FixBarCommands)>>, <<Txt("\\"), Grp(1)>>),
       Rule(<<Lit("\\langle"), WsStar>>, <<Txt("{")>>),
       Rule(<<WsStar, Lit("\\rangle")>>, <<Txt("}")>>),
       Rule(<<Lit("<"), NotPlus({">"}), Lit(">")>>, <<Txt("{"), Grp(1), Txt("}")>>),
       Rule(<<Lit("\\backslash"), WsStar>>, <<Txt("\\")>>),
       Rule(<<Lit("\\f"), WsStar, Lit("r"), WsStar, Lit("a"), WsStar, Lit("c")>>,
            <<Txt("\\frac")>>),
       Rule(<<Lit("\\s"), WsStar, Lit("q"), WsStar, Lit("r"), WsStar, Lit("t")>>,
            <<Txt("\\sqrt")>>),
       Rule(<<Lit("\\t"), WsStar, Lit("e"), WsStar, Lit("x"), WsStar, Lit("t")>>,
            <<Txt("\\text")>>) >>

fixCorruptedLatexPatterns(s) == ApplyRules(s, FixCorruptedLatexPatternsRules)

CleanLatexContentRules ==
    << Rule(<<Lit("."), WsStar, AtEnd>>, <<>>),
       Rule(<<Lit("|"), Alt(BarCommands)>>, <<Txt("\\"), Grp(1)>>),
       Rule(<<Lit("\\langle"), WsStar>>, <<Txt("{")>>),
       Rule(<<WsStar, Lit("\\rangle")>>, <<Txt("}")>>),
       Rule(<<Lit("\\backslash"), WsStar>>, <<Txt("\\")>>),
       Rule(<<Lit("\\{operatorname{"), Alt(OperatorNames), Lit("}}")>>, <<Txt("\\"), Grp(1)>>),
       Rule(<<Lit("{\\operatorname{"), Alt(OperatorNames), Lit("}")>>,
            <<Txt("\\"), Grp(1), Txt("{")>>),
       Rule(<<Lit("\\operatorname{"), Alt(OperatorNames), Lit("}")>>, <<Txt("\\"), Grp(1)>>),
       Rule(<<Lit("\\left\\{frac")>>, <<Txt("\\left(\\frac")>>),
       Rule(<<Lit("\\left{frac")>>, <<Txt("\\left(\\frac")>>),
       Rule(<<Lit("\\left{f(")>>, <<Txt("\\left(\\frac{")>>),
       Rule(<<Lit("\\right}")>>, <<Txt("\\right)")>>),
       Rule(<<Lit("}right)")>>, <<Txt("\\right)")>>),
       Rule(<<Lit("right\\^"), OneOf(Digits)>>, <<Txt("\\right)^"), Grp(1)>>),
       Rule(<<Lit("}right^"), OneOf(Digits)>>, <<Txt("\\right)^"), Grp(1)>>),
       Rule(<<Lit("(right)")>>, <<Txt("\\right)")>>),
       Rule(<<Lit("\\frac("), NotPlus({")"}), Lit(")("), NotPlus({")"}), Lit(")")>>, FracOf12),
       Rule(<<Lit("\\{frac{"), NotPlus({"}"}), Lit("}{"), NotPlus({"}"}), Lit("}}")>>, FracOf12),
       Rule(<<Lit("{frac{"), NotPlus({"}"}), Lit("}{"), NotPlus({"}"}), Lit("}")>>, FracOf12),
       Rule(<<Lit("\\wedge")>>, <<Txt("^")>>),
       Rule(<<Lit("\\^")>>, <<Txt("^")>>),
       Rule(<<Lit("{^"), CapturedInPlus(Digits), Lit("}")>>, <<Txt("^{"), Grp(1), Txt("}")>>),
       Rule(<<Lit("\\mathrm{"), OneOf(Letters), Lit("}")>>, <<Grp(1)>>),
       Rule(<<Lit("\\underline{"), NotPlus({"}"}), Lit("}")>>, <<Grp(1)>>),
       Rule(<<Lit("\\boldsymbol{"), NotPlus({"}"}), Lit("}")>>, <<Grp(1)>>),
       Rule(<<Lit("\\quad"), WsStar>>, <<Txt(" ")>>),
       Rule(<<Lit("\\qquad"), WsStar>>, <<Txt("  ")>>),
       Rule(<<Lit("\\\\"), WsStarNotBefore({"\\", "["})>>, <<Txt(" ")>>),
       Rule(<<Lit("\\text"), WsStar, Lit("{")>>, <<Txt("\\text{")>>),
       Rule(<<Lit("\\f"), WsPlus, Lit("r"), WsPlus, Lit("a"), WsPlus, Lit("c")>>, <<Txt("\\frac")>>),
       Rule(<<Lit("\\s"), WsPlus, Lit("q"), WsPlus, Lit("r"), WsPlus, Lit("t")>>, <<Txt("\\sqrt")>>),
       Rule(<<Lit("\\neq"), WsPlus, Lit("0")>>, <<Txt("\\neq 0")>>),
       Rule(<<Lit("\\text("), WsStar>>, <<Txt("\\text{")>>),
       Rule(<<WsStar, Lit(")\\text")>>, <<Txt("}")>>) >>

\* the number of occurrences of the character c in s: (s.match(/c/g) || []).length
CountOf(s, c) == Cardinality({i \in 1..Len(s) : Ch(s, i) = c})

\* c.repeat(n)
RECURSIVE Repeat(_, _)
Repeat(c, n) == IF n <= 0 THEN "" ELSE c \o Repeat(c, n - 1)

\* a faulty balancing that makes the counts equal in both directions: it
\* also drops closing braces from the end while there are too many
RECURSIVE BalanceBracesBothWays(_)
BalanceBracesBothWays(cleaned) ==
    IF CountOf(cleaned, "{") > CountOf(cleaned, "}")
    THEN cleaned \o Repeat("}", CountOf(cleaned, "{") - CountOf(cleaned, "}"))
    ELSE IF CountOf(cleaned, "{") < CountOf(cleaned, "}") /\ Ch(cleaned, Len(cleaned)) = "}"
    THEN BalanceBracesBothWays(SubSeq(cleaned, 1, Len(cleaned) - 1))
    ELSE cleaned

\* the end of cleanLatexContent: the missing closing braces are appended
BalanceBraces(cleaned) ==
    IF CountOf(cleaned, "{") > CountOf(cleaned, "}")
    THEN cleaned \o Repeat("}", CountOf(cleaned, "{") - CountOf(cleaned, "}"))
    ELSE cleaned

cleanLatexContent(latex) == BalanceBraces(ApplyRules(latex, CleanLatexContentRules))

(***************************************************************************)
(* messages.ts: renderLatex.  The rendering library is not part of the     *)
(* repository: how it behaves in a call is an input (library): it renders  *)
(* the formula, it renders it only with the lenient settings, or it throws *)
(* with both.  Of its markup only the quoted source of the formula is      *)
(* modelled.                                                               *)
(***************************************************************************)
LibraryBehaviours == {"renders", "lenient", "fails"}

\* text.replace(/&/g, '&amp;') ... .replace(/'/g, '&#39;')
EscapeHtmlRules ==
    << Rule(<<Lit("&")>>, <<Txt("&amp;")>>),
       Rule(<<Lit("<")>>, <<Txt("&lt;")>>),
       Rule(<<Lit(">")>>, <<Txt("&gt;")>>),
       Rule(<<Lit("\"")>>, <<Txt("&quot;")>>),
       Rule(<<Lit("'")>>, <<Txt("&#39;")>>) >>

escapeHtml(s) == ApplyRules(s, EscapeHtmlRules)

\* text.replace(/&lt;/g, '<') ... .replace(/&#39;/g, "'")
UnescapeHtmlEntitiesRules ==
    << Rule(<<Lit("&lt;")>>, <<Txt("<")>>),
       Rule(<<Lit("&gt;")>>, <<Txt(">")>>),
       Rule(<<Lit("&amp;")>>, <<Txt("&")>>),
       Rule(<<Lit("&quot;")>>, <<Txt("\"")>>),
       Rule(<<Lit("&#39;")>>, <<Txt("'")>>) >>

unescapeHtmlEntities(s) == ApplyRules(s, UnescapeHtmlEntitiesRules)

\* s.endsWith('.') ? s.slice(0, -1) : s
StripPeriod(s) == IF Len(s) > 0 /\ Ch(s, Len(s)) = "." THEN SubSeq(s, 1, Len(s) - 1) ELSE s

\* katex.renderToString with the strict settings, when it returns
StrictMarkup(cleanedLatex, displayMode) ==
    (IF displayMode THEN "<span class=\"katex-display\">" ELSE "<span class=\"katex\">")
        \o "<annotation>" \o escapeHtml(cleanedLatex) \o "</annotation></span>"

\* katex.renderToString with the lenient settings, when it returns
LenientMarkup(cleanedLatex, errorColor) ==
    "<span class=\"katex-error\" style=\"color:" \o errorColor \o "\">"
        \o escapeHtml(cleanedLatex) \o "</span>"

\* the message of the error katex.renderToString throws with the strict
\* settings
StrictError == "KaTeX parse error"

DefaultErrorColor == "#cc0000"

\* const { displayMode = false, throwOnError = false, errorColor = '#cc0000' } = options
RenderOptions(displayMode, throwOnError) ==
    [displayMode |-> displayMode, throwOnError |-> throwOnError, errorColor |-> DefaultErrorColor]

\* what a call gives: a value returned or an error thrown
Gives(html, error) == [threw |-> FALSE, html |-> html, error |-> error, message |-> ""]
Throws(message) == [threw |-> TRUE, html |-> "", error |-> None, message |-> message]

\* a faulty fallback that rethrows whatever throwOnError says
FallbackRethrowing(latex, opts, errorMessage) == Throws(errorMessage)

\* the end of the catch block of renderLatex: both renders have thrown
Fallback(latex, opts, errorMessage) ==
    IF opts.throwOnError THEN Throws(errorMessage)
    ELSE Gives("<span style=\"color: " \o opts.errorColor \o "; font-family: monospace;\">"
                   \o escapeHtml(latex) \o "</span>",
               Some(errorMessage))

\* renderLatex from the try block on
RenderCleaned(latex, cleanedLatex, opts, lib) ==
    IF lib = "renders" THEN Gives(StrictMarkup(cleanedLatex, opts.displayMode), None)
    ELSE IF lib = "lenient" THEN Gives(LenientMarkup(cleanedLatex, opts.errorColor), None)
    ELSE Fallback(latex, opts, StrictError)

renderLatex(latex, opts, lib) == RenderCleaned(latex, StripPeriod(Trim(latex)), opts, lib)

renderInlineMath(latex, lib) == renderLatex(latex, RenderOptions(FALSE, FALSE), lib)
renderBlockMath(latex, lib) == renderLatex(latex, RenderOptions(TRUE, FALSE), lib)

(***************************************************************************)
(* messages.ts: processTextWithLatex.  Each pass is a global replace of    *)
(* the spans between an opening and a closing delimiter; the formula       *)
(* between them is matched lazily, so a span ends at the first closing     *)
(* delimiter after its least content.                                      *)
(***************************************************************************)
\* a pass: its delimiters, the least length of the formula, whether the
\* formula stays on one line, whether the delimiter is a lone dollar (no
\* dollar next to it), and whether the formula is rendered as a block
Pass(open, close, least, oneLine, lone, block) ==
    [open |-> open, close |-> close, least |-> least, oneLine |-> oneLine, lone |-> lone, block |-> block]

LatexPasses ==
    << Pass(<<"$$">>, <<"$$">>, 1, FALSE, FALSE, TRUE),
       Pass(<<"\\[">>, <<"\\]">>, 1, FALSE, FALSE, TRUE),
       Pass(<<"\\begin{equation*}", "\\begin{equation}">>, <<"\\end{equation*}", "\\end{equation}">>,
            0, FALSE, FALSE, TRUE),
       Pass(<<"\\begin{align*}", "\\begin{align}">>, <<"\\end{align*}", "\\end{align}">>,
            0, FALSE, FALSE, TRUE),
       Pass(<<"\\(">>, <<"\\)">>, 1, TRUE, FALSE, FALSE),
       Pass(<<"$">>, <<"$">>, 1, FALSE, TRUE, FALSE) >>

\* the literals of lits that occur in s at position i
LiteralsAt(s, lits, i) == {k \in 1..Len(lits) : OccursAt(s, lits[k], i)}

NoSpan == [ok |-> FALSE, at |-> 0, next |-> 0, latex |-> ""]

\* the span that opens at position j with the opening delimiter o, its
\* formula starting at from, when the first closing delimiter is at e
SpanClosedAt(s, p, j, from, e) ==
    IF /\ p.oneLine => \A i \in from..(e - 1) : Ch(s, i) \notin {"\n", "\r"}
       /\ p.lone => Ch(s, e + 1) # "$"
    THEN [ok |-> TRUE, at |-> j, next |-> e + Len(p.close[Min(LiteralsAt(s, p.close, e))]),
          latex |-> SubSeq(s, from, e - 1)]
    ELSE NoSpan

SpanFrom(s, p, j, from) ==
    LET ends == {e \in (from + p.least)..Len(s) : LiteralsAt(s, p.close, e) # {}}
    IN  IF ends = {} THEN NoSpan ELSE SpanClosedAt(s, p, j, from, Min(ends))

\* the match of the regular expression of the pass at position j
SpanAt(s, p, j) ==
    IF LiteralsAt(s, p.open, j) = {} THEN NoSpan
    ELSE IF p.lone /\ (Ch(s, j - 1) = "$" \/ Ch(s, j + 1) = "$") THEN NoSpan
    ELSE SpanFrom(s, p, j, j + Len(p.open[Min(LiteralsAt(s, p.open, j))]))

\* the leftmost span from position i on
FirstSpan(s, p, i) ==
    LET starts == {j \in i..Len(s) : SpanAt(s, p, j).ok}
    IN  IF starts = {} THEN NoSpan ELSE SpanAt(s, p, Min(starts))

\* the formula given to the renderer
CleanLatexOf(p, latex) ==
    IF p.lone THEN cleanLatexContent(Trim(StripPeriod(Trim(latex))))
    ELSE cleanLatexContent(Trim(latex))

\* the markup around what the renderer gave
Wrapped(p, latex, rendered) ==
    IF rendered.threw
    THEN IF p.block THEN "<div class=\"katex-block katex-error\">" \o escapeHtml(latex) \o "</div>"
         ELSE "<span class=\"katex-inline katex-error\">" \o escapeHtml(latex) \o "</span>"
    ELSE IF p.block THEN "<div class=\"katex-block\">" \o rendered.html \o "</div>"
         ELSE "<span class=\"katex-inline\">" \o rendered.html \o "</span>"

\* the callback of the replace: the markup that replaces a span
SpanMarkup(p, latex, lib) ==
    Wrapped(p, latex,
            IF p.block THEN renderBlockMath(CleanLatexOf(p, latex), lib)
            ELSE renderInlineMath(CleanLatexOf(p, latex), lib))

\* processed.replace(regex, callback) from position i on
RECURSIVE ReplaceSpans(_, _, _, _)
ReplaceSpansAfter(s, p, lib, i, m) ==
    IF ~m.ok THEN SubSeq(s, i, Len(s))
    ELSE SubSeq(s, i, m.at - 1) \o SpanMarkup(p, m.latex, lib) \o ReplaceSpans(s, p, lib, m.next)
ReplaceSpans(s, p, lib, i) == ReplaceSpansAfter(s, p, lib, i, FirstSpan(s, p, i))

\* the passes one after the other
RECURSIVE ApplyPasses(_, _, _)
ApplyPasses(s, passes, lib) ==
    IF passes = <<>> THEN s
    ELSE ApplyPasses(ReplaceSpans(s, Head(passes), lib, 1), Tail(passes), lib)

processTextWithLatex(t, lib) ==
    ApplyPasses(fixCorruptedLatexPatterns(unescapeHtmlEntities(t)), LatexPasses, lib)

(***************************************************************************)
(* DOM writes.  Every write returns the heap after it; a new node takes    *)
(* the next free id.                                                       *)
(***************************************************************************)
IndexIn(s, x) == CHOOSE i \in 1..Len(s) : s[i] = x

\* the copies of the nodes, in order, appended to the heap: the copy of the
\* first is detached, every other keeps its place among the copies
CopiesOf(h, nodes) ==
    [i \in 1..Len(nodes) |->
        [h[nodes[i]] EXCEPT
            !.parent = IF i = 1 THEN Null ELSE Len(h) + IndexIn(nodes, h[nodes[i]].parent),
            !.kids   = [k \in 1..Len(h[nodes[i]].kids) |-> Len(h) + IndexIn(nodes, h[nodes[i]].kids[k])]]]

\* a faulty cloneNode that hands back the node itself
cloneNodeShared(h, n) == [heap |-> h, root |-> n]

\* node.cloneNode(true): the heap with a detached deep copy of the subtree
\* of n appended, and the id of the copy of n
cloneNode(h, n) == [heap |-> h \o CopiesOf(h, PreorderOf(h, <<n>>)), root |-> Len(h) + 1]

\* the children of a node with the child el replaced by the node t
KidsWith(kids, el, t) == [k \in 1..Len(kids) |-> IF kids[k] = el THEN t ELSE kids[k]]

\* el.replaceWith(text): el leaves its parent and a new text node takes its
\* place; nothing happens when el has no parent
replaceWithText(h, el, data) ==
    IF h[el].parent = Null THEN h
    ELSE [Append(h, Text(data) @@ [parent |-> h[el].parent, kids |-> <<>>])
            EXCEPT ![h[el].parent].kids = KidsWith(h[h[el].parent].kids, el, Len(h) + 1),
                   ![el].parent = Null]

\* el.append(text): a new text node becomes the last child of el
appendText(h, el, data) ==
    [Append(h, Text(data) @@ [parent |-> el, kids |-> <<>>])
        EXCEPT ![el].kids = Append(h[el].kids, Len(h) + 1)]

\* n and its ancestors, nearest first
RECURSIVE SelfAndAncestors(_, _)
SelfAndAncestors(h, n) == IF n = Null THEN <<>> ELSE <<n>> \o SelfAndAncestors(h, h[n].parent)

\* element.closest(sel) !== null, for the test sel
HasClosest(h, n, Test(_, _)) == SelectSeq(SelfAndAncestors(h, n), LAMBDA a : IsElement(h, a) /\ Test(h, a)) # <<>>

\* n has a proper ancestor element with the tag
HasAncestorTag(h, n, tag) == SelectSeq(SelfAndAncestors(h, h[n].parent), LAMBDA a : h[a].tag = tag) # <<>>

(***************************************************************************)
(* parser.ts: getElementTextWithStructure.  Each pass runs over the static *)
(* list its querySelectorAll returned and writes to the heap.              *)
(***************************************************************************)
\* the textContent of the first of the elements, '' when there is none
FirstTextOrEmpty(h, ns) == IF ns = <<>> THEN "" ELSE TextContent(h, Head(ns))

\* `${delimiter}${latex}${delimiter}`
Delimited(isBlock, latex) == (IF isBlock THEN "$$" ELSE "$") \o latex \o (IF isBlock THEN "$$" ELSE "$")

\* forEach(el => el.replaceWith(el.textContent || ''))
RECURSIVE StripEach(_, _)
StripEach(h, els) ==
    IF els = <<>> THEN h
    ELSE StripEach(replaceWithText(h, Head(els), TextContent(h, Head(els))), Tail(els))

IsKatexDisplay(h, n) == ClassListContains(h, n, "katex-display")

\* katex.querySelector('annotation[encoding="application/x-tex"]')
TexAnnotation(h, katex) ==
    FirstOf(SelectSeq(DescendantElements(h, katex),
                      LAMBDA n : h[n].tag = "annotation" /\ AttrOrEmpty(h, n, "encoding") = "application/x-tex"))

\* the callback of the forEach over '.katex', annotation being the
\* annotation element found below katex
KatexOne(h, katex, annotation) ==
    IF annotation # Null /\ TextContent(h, annotation) # ""
    THEN replaceWithText(h, katex, Delimited(HasClosest(h, katex, IsKatexDisplay),
                                             cleanExtractedLatex(Trim(TextContent(h, annotation)))))
    ELSE h

\* the forEach over '.katex'
RECURSIVE KatexEach(_, _)
KatexEach(h, els) ==
    IF els = <<>> THEN h ELSE KatexEach(KatexOne(h, Head(els), TexAnnotation(h, Head(els))), Tail(els))

\* mjx.getAttribute('data-formula') || mjx.querySelector('script[type*="math"]')?.textContent
MjxFormula(h, mjx) ==
    IF AttrOrEmpty(h, mjx, "data-formula") # "" THEN AttrOrEmpty(h, mjx, "data-formula")
    ELSE FirstTextOrEmpty(h, SelectSeq(DescendantElements(h, mjx),
                                       LAMBDA n : h[n].tag = "script" /\ Includes(AttrOrEmpty(h, n, "type"), "math")))

\* the callback of the forEach over the math elements: el is replaced by
\* the delimited, cleaned formula when there is a formula
MathOne(h, el, formula, isBlock) ==
    IF formula # "" THEN replaceWithText(h, el, Delimited(isBlock, cleanExtractedLatex(formula))) ELSE h

\* the forEach over 'mjx-container'
RECURSIVE MjxEach(_, _)
MjxEach(h, els) ==
    IF els = <<>> THEN h
    ELSE MjxEach(MathOne(h, Head(els), MjxFormula(h, Head(els)),
                         \/ AttrOrEmpty(h, Head(els), "display") = "block"
                         \/ ClassListContains(h, Head(els), "MathJax_Display")),
                 Tail(els))

\* span.getAttribute('data-latex') || span.getAttribute('data-value') ||
\* span.querySelector('annotation')?.textContent
SpanLatex(h, span) ==
    IF AttrOrEmpty(h, span, "data-latex") # "" THEN AttrOrEmpty(h, span, "data-latex")
    ELSE IF AttrOrEmpty(h, span, "data-value") # "" THEN AttrOrEmpty(h, span, "data-value")
    ELSE FirstTextOrEmpty(h, SelectSeq(DescendantElements(h, span), LAMBDA n : h[n].tag = "annotation"))

\* the forEach over 'span.math, span.math-inline, span.math-display'
RECURSIVE SpanMathEach(_, _)
SpanMathEach(h, els) ==
    IF els = <<>> THEN h
    ELSE SpanMathEach(MathOne(h, Head(els), SpanLatex(h, Head(els)),
                              ClassListContains(h, Head(els), "math-display")),
                      Tail(els))

\* forEach(br => br.replaceWith('\n'))
RECURSIVE BrEach(_, _)
BrEach(h, els) == IF els = <<>> THEN h ELSE BrEach(replaceWithText(h, Head(els), "\n"), Tail(els))

\* forEach(block => { if (block.textContent) block.append('\n') })
RECURSIVE BlockEach(_, _)
BlockEach(h, els) ==
    IF els = <<>> THEN h
    ELSE BlockEach(IF TextContent(h, Head(els)) # "" THEN appendText(h, Head(els), "\n") ELSE h, Tail(els))

StrikeTags == {"del", "s", "strike"}
BlockTags == {"p", "div", "h1", "h2", "h3", "h4", "h5", "h6"}

\* clone.querySelectorAll(sel) for the test sel
QueryAll(h, root, Test(_, _)) == SelectSeq(DescendantElements(h, root), LAMBDA n : Test(h, n))

IsStrike(h, n) == h[n].tag \in StrikeTags
IsLineThrough(h, n) == Includes(AttrOrEmpty(h, n, "style"), "line-through")
IsKatex(h, n) == ClassListContains(h, n, "katex")
IsMjx(h, n) == h[n].tag = "mjx-container"
IsSpanMath(h, n) ==
    /\ h[n].tag = "span"
    /\ \/ ClassListContains(h, n, "math")
       \/ ClassListContains(h, n, "math-inline")
       \/ ClassListContains(h, n, "math-display")
IsBr(h, n) == h[n].tag = "br"
IsBlock(h, n) == h[n].tag \in BlockTags

\* the passes of getElementTextWithStructure over the clone, in source order
StrikePass(h, clone) == StripEach(h, QueryAll(h, clone, IsStrike))
LineThroughPass(h, clone) == StripEach(h, QueryAll(h, clone, IsLineThrough))
KatexPass(h, clone) == KatexEach(h, QueryAll(h, clone, IsKatex))
MjxPass(h, clone) == MjxEach(h, QueryAll(h, clone, IsMjx))
SpanMathPass(h, clone) == SpanMathEach(h, QueryAll(h, clone, IsSpanMath))
BrPass(h, clone) == BrEach(h, QueryAll(h, clone, IsBr))
BlockPass(h, clone) == BlockEach(h, QueryAll(h, clone, IsBlock))

\* return clone.textContent || '', with the heap the passes left
TextResult(h, clone) == [heap |-> h, text |-> TextContent(h, clone)]

\* getElementTextWithStructure from the clone on
StructuredTextOf(c) ==
    TextResult(
        BlockPass(
            BrPass(
                SpanMathPass(
                    MjxPass(
                        KatexPass(
                            LineThroughPass(
                                StrikePass(c.heap, c.root),
                                c.root),
                            c.root),
                        c.root),
                    c.root),
                c.root),
            c.root),
        c.root)

\* getElementTextWithStructure(element): the text, and the heap after the
\* call (the clone and the nodes made for it included)
getElementTextWithStructure(h, element) == StructuredTextOf(cloneNode(h, element))

(***************************************************************************)
(* parser.ts: the block constructors.                                      *)
(***************************************************************************)
\* every match of a global regular expression from position i on: the
\* 0-based index of the match and its groups (the regex.exec loop)
RECURSIVE ExecAll(_, _, _)
ExecAfter(s, pat, m) == <<[index |-> m.at - 1, groups |-> m.groups]>> \o ExecAll(s, pat, m.next)
ExecAll(s, pat, i) ==
    IF MatchStarts(s, pat, i) = {} THEN <<>>
    ELSE ExecAfter(s, pat, MatchFrom(s, pat, 1, Min(MatchStarts(s, pat, i)), <<>>)
                               @@ [at |-> Min(MatchStarts(s, pat, i))])

\* /\$([^$]+)\$/g and /\$\$([^$]+)\$\$/g
InlineRegex == <<Lit("$"), NotPlus({"$"}), Lit("$")>>
BlockRegex == <<Lit("$$"), NotPlus({"$"}), Lit("$$")>>

\* faulty expressions whose position is the 1-based position of the match
ExpressionsOfOneBased(matches, isBlock) ==
    [k \in 1..Len(matches) |-> [raw |-> matches[k].groups[1], isBlock |-> isBlock, position |-> matches[k].index + 1]]

\* the LatexExpression pushed for each match
ExpressionsOf(matches, isBlock) ==
    [k \in 1..Len(matches) |-> [raw |-> matches[k].groups[1], isBlock |-> isBlock, position |-> matches[k].index]]

\* the expressions of a text block
TextBlockOf(text, found) == [type |-> "text", content |-> text, hasLatex |-> found # <<>>, latexExpressions |-> found]

\* createTextBlock(text, options)
createTextBlock(text, options) ==
    TextBlockOf(text,
                IF options.parseLaTeX
                THEN ExpressionsOf(ExecAll(text, InlineRegex, 1), FALSE)
                     \o ExpressionsOf(ExecAll(text, BlockRegex, 1), TRUE)
                ELSE <<>>)

\* langClass.replace(/^(language-|lang-)/, '')
StripLanguagePrefix(c) ==
    IF StartsWith(c, "language-") THEN SubSeq(c, Len("language-") + 1, Len(c))
    ELSE IF StartsWith(c, "lang-") THEN SubSeq(c, Len("lang-") + 1, Len(c))
    ELSE c

\* the class that names the language, stripped of its prefix; None for null
LanguageOfClasses(named) == IF named = <<>> THEN None ELSE Some(StripLanguagePrefix(Head(named)))

LanguageOf(classes) ==
    LanguageOfClasses(SelectSeq(classes, LAMBDA c : StartsWith(c, "language-") \/ StartsWith(c, "lang-")))

\* element.querySelector('code') || element
CodeElementOf(h, element) ==
    IF SelectSeq(DescendantElements(h, element), LAMBDA n : h[n].tag = "code") # <<>>
    THEN Head(SelectSeq(DescendantElements(h, element), LAMBDA n : h[n].tag = "code"))
    ELSE element

\* parent.querySelector('[class*="filename"], [class*="file-name"]')
FilenameElementOf(h, parent) ==
    IF parent = Null THEN Null
    ELSE FirstOf(SelectSeq(DescendantElements(h, parent),
                           LAMBDA n : ClassHas(h, n, "filename") \/ ClassHas(h, n, "file-name")))

\* filenameElement.textContent?.trim() || null
FilenameOf(h, filenameElement) ==
    IF filenameElement = Null \/ Trim(TextContent(h, filenameElement)) = "" THEN None
    ELSE Some(Trim(TextContent(h, filenameElement)))

\* parseCodeBlock from the code element on
CodeBlockOf(h, element, codeElement) ==
    IF Trim(TextContent(h, codeElement)) = "" THEN None
    ELSE Some([type |-> "code", language |-> LanguageOf(Tokens(ClassName(h, codeElement))),
               content |-> Trim(TextContent(h, codeElement)),
               filename |-> FilenameOf(h, FilenameElementOf(h, ParentElement(h, element)))])

\* parseCodeBlock(element): None for null
parseCodeBlock(h, element) == CodeBlockOf(h, element, CodeElementOf(h, element))

\* the trimmed texts of the cells among ns
CellTexts(h, ns) == [k \in 1..Len(ns) |-> Trim(TextContent(h, ns[k]))]

\* row.querySelectorAll(tags) for a set of cell tags
CellsOf(h, row, tags) == SelectSeq(DescendantElements(h, row), LAMBDA n : h[n].tag \in tags)

\* the rows with at least one cell, as lists of cell texts
RowsOf(h, rows, tags) ==
    SelectSeq([k \in 1..Len(rows) |-> CellTexts(h, CellsOf(h, rows[k], tags))], LAMBDA r : Len(r) > 0)

\* the headers of parseTableBlock: the cells of the thead, else the cells of
\* the first row
TableHeaders(h, headerCells, allRows) ==
    IF Len(headerCells) > 0 THEN CellTexts(h, headerCells)
    ELSE IF allRows = <<>> THEN <<>>
    ELSE CellTexts(h, CellsOf(h, Head(allRows), {"th", "td"}))

\* faulty rows of parseTableBlock that are always every row but the first
TableRowsAfterFirst(h, bodyRowTexts, allRows) ==
    IF allRows = <<>> THEN <<>> ELSE RowsOf(h, Tail(allRows), {"td", "th"})

\* the rows of parseTableBlock: the rows of the tbody, else every row but
\* the first
TableRows(h, bodyRowTexts, allRows) ==
    IF Len(bodyRowTexts) > 0 THEN bodyRowTexts
    ELSE IF allRows = <<>> THEN <<>>
    ELSE RowsOf(h, Tail(allRows), {"td", "th"})

\* parseTableBlock from the rows of the table on
TableBlockOf(h, element, allRows) ==
    [type    |-> "table",
     headers |-> TableHeaders(h, SelectSeq(DescendantElements(h, element),
                                           LAMBDA n : h[n].tag \in {"th", "td"} /\ HasAncestorTag(h, n, "thead")),
                              allRows),
     rows    |-> TableRows(h, RowsOf(h, SelectSeq(allRows, LAMBDA n : HasAncestorTag(h, n, "tbody")), {"td"}),
                           allRows)]

\* parseTableBlock(element)
parseTableBlock(h, element) ==
    TableBlockOf(h, element, SelectSeq(DescendantElements(h, element), LAMBDA n : h[n].tag = "tr"))

\* parseThinkingBlock(element)
parseThinkingBlock(h, element) ==
    [type |-> "thinking", content |-> Trim(TextContent(h, element)),
     isCollapsed |-> \/ AttrOrEmpty(h, element, "data-collapsed") = "true"
                     \/ ClassListContains(h, element, "collapsed")]

\* isThinkingElement(element): "yes", "no", or "throws" when the test reaches
\* element.className.includes on an SVG element, whose className has no
\* includes method
isThinkingElement(h, element) ==
    IF HasAttribute(h, element, "data-thinking") \/ ClassHas(h, element, "thinking") THEN "yes"
    ELSE IF h[element].svg THEN "throws"
    ELSE IF Includes(ClassName(h, element), "thinking") THEN "yes"
    ELSE "no"

(***************************************************************************)
(* parser.ts: parseListToText, parseContentBlocks, parseMessageElement.    *)
(* A call that may throw returns a record whose field threw says whether   *)
(* it threw; heap is the heap after the call.                              *)
(***************************************************************************)
\* lines.join(sep)
RECURSIVE Join(_, _)
Join(lines, sep) ==
    IF lines = <<>> THEN ""
    ELSE IF Len(lines) = 1 THEN Head(lines)
    ELSE Head(lines) \o sep \o Join(Tail(lines), sep)

\* the unordered-list prefix of the source: the three characters U+00E2
\* U+20AC U+00A2 (a bullet decoded in the wrong character set), written
\* here as "@@@", and a space
BulletPrefix == "@@@ "

\* `${index + 1}. ` or the bullet prefix
ListPrefix(isOrdered, index) == IF isOrdered THEN Decimal(index + 1) \o ". " ELSE BulletPrefix

\* the items.forEach of parseListToText from item k on, got being what
\* getElementTextWithStructure returned for item k
RECURSIVE ListLines(_, _, _, _, _)
ListLinesAfter(got, items, k, isOrdered, lines) ==
    ListLines(got.heap, items, k + 1, isOrdered,
              IF Trim(got.text) # ""
              THEN Append(lines, ListPrefix(isOrdered, k - 1)
                                 \o ReplaceAll(Trim(got.text), <<InPlus({"\n"})>>, <<Txt(" ")>>))
              ELSE lines)
ListLines(h, items, k, isOrdered, lines) ==
    IF k > Len(items) THEN [heap |-> h, lines |-> lines]
    ELSE ListLinesAfter(getElementTextWithStructure(h, items[k]), items, k, isOrdered, lines)

\* return lines.join('\n')
ListTextOf(done) == [heap |-> done.heap, text |-> Join(done.lines, "\n")]

\* parseListToText(listElement, isOrdered)
parseListToText(h, listElement, isOrdered) ==
    ListTextOf(ListLines(h, SelectSeq(ChildElements(h, listElement), LAMBDA n : h[n].tag = "li"),
                         1, isOrdered, <<>>))

\* the loop of parseContentBlocks over the children kids, the blocks so far
\* being blocks
RECURSIVE ParseChildren(_, _, _, _)

\* the rest of the loop after a list child, list being what parseListToText
\* returned
AfterList(list, kids, options, blocks) ==
    ParseChildren(list.heap, Tail(kids), options,
                  IF list.text # "" THEN Append(blocks, createTextBlock(list.text, options)) ELSE blocks)

\* the rest of the loop after any other child, got being what
\* getElementTextWithStructure returned
AfterParagraph(got, kids, options, blocks) ==
    ParseChildren(got.heap, Tail(kids), options,
                  IF Trim(got.text) # "" THEN Append(blocks, createTextBlock(got.text, options)) ELSE blocks)

\* the loop body from the thinking-block test on, thinking being what
\* isThinkingElement returned, "no" when the option is off
AfterThinkingTest(thinking, h, kids, options, blocks) ==
    IF thinking = "throws" THEN [threw |-> TRUE, blocks |-> blocks, heap |-> h]
    ELSE IF thinking = "yes"
    THEN ParseChildren(h, Tail(kids), options, Append(blocks, parseThinkingBlock(h, Head(kids))))
    ELSE IF h[Head(kids)].tag \in {"ol", "ul"}
    THEN AfterList(parseListToText(h, Head(kids), h[Head(kids)].tag = "ol"), kids, options, blocks)
    ELSE AfterParagraph(getElementTextWithStructure(h, Head(kids)), kids, options, blocks)

\* a faulty loop that tests for a thinking block before the code block and
\* the table
ParseChildrenThinkingFirst(h, kids, options, blocks) ==
    IF kids = <<>> THEN [threw |-> FALSE, blocks |-> blocks, heap |-> h]
    ELSE IF options.includeThinkingBlocks /\ isThinkingElement(h, Head(kids)) = "yes"
    THEN ParseChildren(h, Tail(kids), options, Append(blocks, parseThinkingBlock(h, Head(kids))))
    ELSE IF h[Head(kids)].tag = "pre" /\ options.parseCodeBlocks
    THEN ParseChildren(h, Tail(kids), options, blocks \o parseCodeBlock(h, Head(kids)))
    ELSE IF h[Head(kids)].tag = "table" /\ options.parseTables
    THEN ParseChildren(h, Tail(kids), options, Append(blocks, parseTableBlock(h, Head(kids))))
    ELSE AfterThinkingTest(IF options.includeThinkingBlocks THEN isThinkingElement(h, Head(kids)) ELSE "no",
                           h, kids, options, blocks)

ParseChildren(h, kids, options, blocks) ==
    IF kids = <<>> THEN [threw |-> FALSE, blocks |-> blocks, heap |-> h]
    ELSE IF h[Head(kids)].tag = "pre" /\ options.parseCodeBlocks
    THEN ParseChildren(h, Tail(kids), options, blocks \o parseCodeBlock(h, Head(kids)))
    ELSE IF h[Head(kids)].tag = "table" /\ options.parseTables
    THEN ParseChildren(h, Tail(kids), options, Append(blocks, parseTableBlock(h, Head(kids))))
    ELSE AfterThinkingTest(IF options.includeThinkingBlocks THEN isThinkingElement(h, Head(kids)) ELSE "no",
                           h, kids, options, blocks)

\* the text block of the whole trimmed text of the content element, when
\* it has text
WholeText(h, contentElement, options) ==
    IF Trim(TextContent(h, contentElement)) # ""
    THEN <<createTextBlock(Trim(TextContent(h, contentElement)), options)>>
    ELSE <<>>

\* a faulty end of parseContentBlocks without the fallback to the text
AfterChildrenWithoutFallback(pass, contentElement, options) == pass

\* parseContentBlocks after its loop, pass being what the loop left
AfterChildren(pass, contentElement, options) ==
    IF ~pass.threw /\ Len(pass.blocks) = 0
    THEN [threw |-> FALSE, blocks |-> WholeText(pass.heap, contentElement, options), heap |-> pass.heap]
    ELSE pass

\* parseContentBlocks(contentElement, options)
parseContentBlocks(h, contentElement, options) ==
    IF Len(ChildElements(h, contentElement)) = 0
    THEN [threw |-> FALSE, blocks |-> WholeText(h, contentElement, options), heap |-> h]
    ELSE AfterChildren(ParseChildren(h, ChildElements(h, contentElement), options, <<>>), contentElement, options)

\* element.querySelector('[data-message-id]')
MessageIdElement(h, element) ==
    FirstOf(SelectSeq(DescendantElements(h, element), LAMBDA n : HasAttribute(h, n, "data-message-id")))

\* extractMessageId(element): None for null
extractMessageId(h, element) ==
    IF MessageIdElement(h, element) # Null
    THEN Some(GetAttribute(h, MessageIdElement(h, element), "data-message-id"))
    ELSE IF AttrOrEmpty(h, element, "data-testid") # "" THEN Some(GetAttribute(h, element, "data-testid"))
    ELSE IF AttrOrEmpty(h, element, "id") # "" THEN Some(GetAttribute(h, element, "id"))
    ELSE None

\* extractMessageId(element) || `msg-${index}`
MessageIdOf(found, index) == IF found # None /\ found[1] # "" THEN found[1] ELSE "msg-" \o Decimal(index)

\* a faulty DefaultRole with the two roles exchanged
DefaultRoleExchanged(index) == IF index % 2 = 0 THEN "assistant" ELSE "user"

\* the role given to a message whose role is unknown
DefaultRole(index) == IF index % 2 = 0 THEN "user" ELSE "assistant"

\* contentElement?.innerHTML || element.innerHTML || ''
RawHtmlOf(h, contentElement, element) ==
    IF contentElement # Null /\ InnerHTML(h, contentElement) # "" THEN InnerHTML(h, contentElement)
    ELSE InnerHTML(h, element)

\* parseMessageElement from the skip test on
MessageWith(parsed, element, index, role, rawHtml) ==
    IF role = "unknown" /\ Len(parsed.blocks) = 0 /\ Trim(rawHtml) = ""
    THEN [threw |-> FALSE, message |-> None, heap |-> parsed.heap]
    ELSE [threw |-> FALSE,
          message |-> Some([id |-> MessageIdOf(extractMessageId(parsed.heap, element), index),
                            index |-> index,
                            role |-> IF role = "unknown" THEN DefaultRole(index) ELSE role,
                            content |-> parsed.blocks, rawHtml |-> rawHtml, isSelected |-> TRUE]),
          heap |-> parsed.heap]

\* parseMessageElement after the content blocks were parsed
MessageAfter(parsed, element, index, role, contentElement) ==
    IF parsed.threw THEN [threw |-> TRUE, message |-> None, heap |-> parsed.heap]
    ELSE MessageWith(parsed, element, index, role, RawHtmlOf(parsed.heap, contentElement, element))

\* parseMessageElement once the role and the content element are known
MessageFrom(h, element, index, options, role, contentElement) ==
    MessageAfter(IF contentElement # Null THEN parseContentBlocks(h, contentElement, options)
                 ELSE [threw |-> FALSE, blocks |-> <<>>, heap |-> h],
                 element, index, role, contentElement)

\* parseMessageElement(element, index, options): message is None for null
parseMessageElement(h, element, index, options, bgColor) ==
    MessageFrom(h, element, index, options, getMessageRole(h, element, bgColor), getMessageContent(h, element))

(***************************************************************************)
(* The pages the model runs on.  A page is html > body > container > div   *)
(* > div > message elements, the container a <main> or a <div>; each       *)
(* message element is one of the shapes below, written as an outline whose *)
(* first line is at depth d.                                               *)
(***************************************************************************)
\* <article data-testid="conversation-turn-1"><div class="markdown"><p>ok</p></div></article>
TurnShape(d) ==
    << At(d, Element("article", "data-testid" :> "conversation-turn-1")),
       At(d + 1, Element("div", "class" :> "markdown")),
       At(d + 2, Element("p", NoAttrs)),
       At(d + 3, Text("ok")) >>

\* an article whose own role attribute disagrees with its class name, its
\* descendant's role attribute and its text; its content holds rendered
\* math, struck text and a line break
RichShape(d) ==
    << At(d, Element("article", ("data-message-author-role" :> "assistant") @@ ("class" :> "human"))),
       At(d + 1, Element("div", ("data-message-author-role" :> "user") @@ ("class" :> "markdown prose"))),
       At(d + 2, Element("p", NoAttrs)),
       At(d + 3, Text("E=")),
       At(d + 3, Element("span", "class" :> "katex")),
       At(d + 4, Element("annotation", "encoding" :> "application/x-tex")),
       At(d + 5, Text("|frac(a)(b)")),
       At(d + 2, Element("p", NoAttrs)),
       At(d + 3, Element("del", NoAttrs)),
       At(d + 4, Text("old")),
       At(d + 3, Text("new")),
       At(d + 3, Element("br", NoAttrs)),
       At(d + 3, Text("end")) >>

\* <article></article>
EmptyShape(d) == << At(d, Element("article", NoAttrs)) >>

\* an article whose content holds an inline SVG icon
SvgShape(d) ==
    << At(d, Element("article", NoAttrs)),
       At(d + 1, Element("div", "class" :> "prose")),
       At(d + 2, SvgElement("svg", NoAttrs)) >>

\* <div><div><div class="prose"><p>The quick brown fox jumps</p></div></div></div>
PlainShape(d) ==
    << At(d, Element("div", NoAttrs)),
       At(d + 1, Element("div", NoAttrs)),
       At(d + 2, Element("div", "class" :> "prose")),
       At(d + 3, Element("p", NoAttrs)),
       At(d + 4, Text("The quick brown fox jumps")) >>

\* <div data-testid="conversation-turn-2"><div data-message-author-role="assistant" class="text-base">yo</div></div>
RoleShape(d) ==
    << At(d, Element("div", "data-testid" :> "conversation-turn-2")),
       At(d + 1, Element("div", ("data-message-author-role" :> "assistant") @@ ("class" :> "text-base"))),
       At(d + 2, Text("yo")) >>

\* <div data-message-author-role="user" class="gpt-turn"><p>hey</p></div>
BareShape(d) ==
    << At(d, Element("div", ("data-message-author-role" :> "user") @@ ("class" :> "gpt-turn"))),
       At(d + 1, Element("p", NoAttrs)),
       At(d + 2, Text("hey")) >>

\* <div><div><div><div class="prose">a</div></div></div><div><div class="markdown">b</div></div></div>:
\* the grandparent of the second content element is an ancestor of the
\* grandparent of the first
NestedShape(d) ==
    << At(d, Element("div", NoAttrs)),
       At(d + 1, Element("div", NoAttrs)),
       At(d + 2, Element("div", NoAttrs)),
       At(d + 3, Element("div", "class" :> "prose")),
       At(d + 4, Text("a")),
       At(d + 1, Element("div", NoAttrs)),
       At(d + 2, Element("div", "class" :> "markdown")),
       At(d + 3, Text("b")) >>

\* <div>hi</div>
ShortShape(d) ==
    << At(d, Element("div", NoAttrs)),
       At(d + 1, Text("hi")) >>

Shapes == {"turn", "rich", "empty", "svg", "plain", "role", "bare", "nested", "short"}

ShapeOutline(shape, d) ==
    CASE shape = "turn"  -> TurnShape(d)
      [] shape = "rich"  -> RichShape(d)
      [] shape = "empty" -> EmptyShape(d)
      [] shape = "svg"   -> SvgShape(d)
      [] shape = "plain" -> PlainShape(d)
      [] shape = "role"  -> RoleShape(d)
      [] shape = "bare"  -> BareShape(d)
      [] shape = "nested" -> NestedShape(d)
      [] shape = "short" -> ShortShape(d)

Containers == {"main", "div"}

\* the page with the container and the message shapes, in order
PageOf(container, shapes) ==
    HeapOf(<< At(0, Element("html", NoAttrs)),
              At(1, Element("body", NoAttrs)),
              At(2, Element(container, NoAttrs)),
              At(3, Element("div", NoAttrs)),
              At(4, Element("div", NoAttrs)) >>
           \o Concat([k \in 1..Len(shapes) |-> ShapeOutline(shapes[k], 5)]))

\* the most message shapes on a page, and the largest maxMessages option
MaxShapes == 2
MaxCap == 1

Pages == {PageOf(c, s) : c \in Containers, s \in UNION {[1..n -> Shapes] : n \in 0..MaxShapes}}

\* window.location.href
Hrefs ==
    { "https://chat.openai.com/c/7f-x_1",
      "https://chatgpt.com/c/",
      "https://example.com/c/abc" }

\* DEFAULT_EXTRACTION_OPTIONS with the maxMessages the caller gives
OptionsOf(maxMessages) ==
    [includeRawHtml |-> TRUE, extractTimestamps |-> TRUE, parseLaTeX |-> TRUE, parseCodeBlocks |-> TRUE,
     parseTables |-> TRUE, includeThinkingBlocks |-> TRUE, maxMessages |-> maxMessages]

(***************************************************************************)
(* The state: the page, the caller's options, and the locals and results   *)
(* of one call of extractConversation.                                     *)
(***************************************************************************)
VARIABLES
    href,               \* window.location.href
    dom,                \* the live document
    options,            \* opts
    pc,                 \* where the call is
    messageElements,    \* extractMessages: messageElements
    evaluated,          \* the strategies findAllMessageElements ran
    elementsToProcess,  \* extractMessages: elementsToProcess
    index,              \* extractMessages: the loop index
    processed,          \* the elements parseMessageElement was called on, in order
    messages,           \* extractMessages: messages
    warnings,           \* extractMessages: warnings
    messagesResult,     \* what extractMessages returned, None before
    result,             \* what extractConversation returned, None before
    thrown,             \* an exception left extractConversation
    text,               \* the string a text function is called on
    library,            \* how the rendering library behaves in a call
    returned,           \* what a function called on its own returned, None before
    currentJob,         \* the service worker's currentJob, None for null
    exports,            \* the calls of executeExport, by job
    clicks,             \* the calls of handleExportClick
    progressOverlay,    \* the progress overlay of the page, None before it is created
    lastUrl,            \* the content script's lastUrl
    toolbars,           \* the elements of the page with the toolbar's id
    inits,              \* the calls of initialize
    storage,            \* chrome.storage.local: the stored exportConfig, None when absent
    saves               \* the calls of saveConfig

\* the state of the functions called on their own, and of the export jobs
functionVars == <<text, library, returned>>
jobVars == <<currentJob, exports>>
clickVars == <<clicks, progressOverlay>>
pageVars == <<lastUrl, toolbars, inits>>
storeVars == <<storage, saves>>
contentVars == <<clickVars, pageVars, storeVars>>

vars == <<href, dom, options, pc, messageElements, evaluated, elementsToProcess, index, processed,
          messages, warnings, messagesResult, result, thrown, functionVars, jobVars, contentVars>>

\* no function is being called on its own; no export was started
NoFunctionCall == text = "" /\ library = "renders" /\ returned = None
NoExport == currentJob = None /\ exports = <<>>

\* no content script runs and nothing is stored
NoContentScript ==
    /\ clicks = <<>>
    /\ progressOverlay = None
    /\ lastUrl = ""
    /\ toolbars = 0
    /\ inits = <<>>
    /\ storage = None
    /\ saves = <<>>

Init ==
    /\ href \in Hrefs
    /\ dom \in Pages
    /\ options \in {OptionsOf(m) : m \in 0..MaxCap}
    /\ pc = "idle"
    /\ messageElements = <<>>
    /\ evaluated = <<>>
    /\ elementsToProcess = <<>>
    /\ index = 0
    /\ processed = <<>>
    /\ messages = <<>>
    /\ warnings = <<>>
    /\ messagesResult = None
    /\ result = None
    /\ thrown = FALSE
    /\ NoFunctionCall
    /\ NoExport
    /\ NoContentScript

Failure(error, warns) == [success |-> FALSE, data |-> None, error |-> Some(error), warnings |-> warns]
Success(data, warns) == [success |-> TRUE, data |-> Some(data), error |-> None, warnings |-> warns]

\* extractConversation up to its call of extractMessages
ExtractConversationCall ==
    /\ pc = "idle"
    /\ IF ~isConversationPage(href)
       THEN /\ result' = Some(Failure("Not on a ChatGPT conversation page", <<>>))
            /\ pc' = "done"
       ELSE IF getConversationIdFromUrl(href) = None
       THEN /\ result' = Some(Failure("Could not extract conversation ID from URL", <<>>))
            /\ pc' = "done"
       ELSE /\ result' = result
            /\ pc' = "extractMessages"
    /\ UNCHANGED <<href, dom, options, messageElements, evaluated, elementsToProcess, index, processed,
                   messages, warnings, messagesResult, thrown>>
    /\ UNCHANGED <<functionVars, jobVars, contentVars>>

\* a faulty FallbackMessage that numbers and attributes the message as the
\* loop would
FallbackMessageAsParsed(h, main) ==
    [id |-> "msg-0", index |-> 0, role |-> "user",
     content |-> <<[type |-> "text", content |-> Trim(TextContent(h, main)), hasLatex |-> FALSE,
                    latexExpressions |-> <<>>]>>,
     rawHtml |-> InnerHTML(h, main), isSelected |-> TRUE]

\* the message extractMessages makes of the whole <main> when no message
\* element was found
FallbackMessage(h, main) ==
    [id |-> "fallback-0", index |-> 0, role |-> "assistant",
     content |-> <<[type |-> "text", content |-> Trim(TextContent(h, main)), hasLatex |-> FALSE,
                    latexExpressions |-> <<>>]>>,
     rawHtml |-> InnerHTML(h, main), isSelected |-> TRUE]

\* `Conversation has ${found} messages, limiting to ${max}`
LimitWarning(found, max) ==
    "Conversation has " \o Decimal(found) \o " messages, limiting to " \o Decimal(max)

\* a faulty slice that keeps every element
SliceAll(s, n) == s

\* a faulty slice that starts at the second element: slice(1, n + 1)
SliceFromSecond(s, n) == SubSeq(s, 2, IF n + 1 < Len(s) THEN n + 1 ELSE Len(s))

\* messageElements.slice(0, n)
Slice0(s, n) == SubSeq(s, 1, IF n < Len(s) THEN n ELSE Len(s))

\* extractMessages from its start to the loop
ExtractMessagesBegin ==
    /\ pc = "extractMessages"
    /\ LET found == findAllMessageElements(dom)
           main  == MainElement(dom)
       IN  /\ messageElements' = found.elements
           /\ evaluated' = found.evaluated
           /\ IF Len(found.elements) = 0
              THEN /\ pc' = "return"
                   /\ elementsToProcess' = <<>>
                   /\ IF main # Null
                      THEN /\ warnings' = <<"Using fallback extraction - structure may not be ideal">>
                           /\ messagesResult' =
                                IF Trim(TextContent(dom, main)) # ""
                                THEN Some(Success(<<FallbackMessage(dom, main)>>, warnings'))
                                ELSE Some(Failure("No messages found in conversation. Please make sure the page is fully loaded.", warnings'))
                      ELSE /\ warnings' = <<>>
                           /\ messagesResult' =
                                Some(Failure("No messages found in conversation. Please make sure the page is fully loaded.", <<>>))
              ELSE /\ pc' = "loop"
                   /\ warnings' = IF options.maxMessages > 0 /\ Len(found.elements) > options.maxMessages
                                  THEN <<LimitWarning(Len(found.elements), options.maxMessages)>>
                                  ELSE <<>>
                   /\ elementsToProcess' = IF options.maxMessages > 0
                                           THEN Slice0(found.elements, options.maxMessages)
                                           ELSE found.elements
                   /\ messagesResult' = messagesResult
    /\ index' = 0
    /\ messages' = <<>>
    /\ UNCHANGED <<href, dom, options, processed, result, thrown>>
    /\ UNCHANGED <<functionVars, jobVars, contentVars>>

\* the nodes of the document
NodesIn(order) == {order[i] : i \in 1..Len(order)}
LiveNodes(h) == NodesIn(PreorderOf(h, <<DocumentElement>>))

\* the heap without the unreachable nodes above its last reachable node
\* (detached clones are garbage once the call that made them returns)
Collect(h) == SubSeq(h, 1, Max(LiveNodes(h)))

\* a loop without the try/catch
LetsParseErrorEscape == FALSE

\* the try/catch around parseMessageElement catches what it throws
CatchesParseError == TRUE

\* the text of the TypeError of element.className.includes on an SVG element
ParseErrorText == "TypeError: element.className.includes is not a function"

\* `Failed to parse message at index ${index}: ${error}`
ParseWarning(i, error) == "Failed to parse message at index " \o Decimal(i) \o ": " \o error

\* one turn of the loop of extractMessages
ParseNext ==
    /\ pc = "loop"
    /\ index < Len(elementsToProcess)
    /\ \E bgColor \in BackgroundColors :
       \E parsed \in {parseMessageElement(dom, elementsToProcess[index + 1], index, options, bgColor)} :
             /\ dom' = Collect(parsed.heap)
             /\ processed' = Append(processed, elementsToProcess[index + 1])
             /\ IF parsed.threw /\ ~CatchesParseError
                THEN /\ thrown' = TRUE
                     /\ pc' = "done"
                     /\ UNCHANGED <<index, messages, warnings>>
                ELSE /\ thrown' = thrown
                     /\ pc' = pc
                     /\ index' = index + 1
                     /\ messages' = IF parsed.threw THEN messages ELSE messages \o parsed.message
                     /\ warnings' = IF parsed.threw THEN Append(warnings, ParseWarning(index, ParseErrorText))
                                    ELSE warnings
    /\ UNCHANGED <<href, options, messageElements, evaluated, elementsToProcess, messagesResult, result>>
    /\ UNCHANGED <<functionVars, jobVars, contentVars>>

\* a faulty end of extractMessages without the test for no message
LoopResultAlwaysSuccess(msgs, warns) == Success(msgs, warns)

\* what extractMessages returns after the loop
LoopResult(msgs, warns) ==
    IF Len(msgs) = 0 THEN Failure("Failed to parse any messages", warns)
    ELSE Success(msgs, warns)

\* extractMessages after the loop
ExtractMessagesEnd ==
    /\ pc = "loop"
    /\ index >= Len(elementsToProcess)
    /\ messagesResult' = Some(LoopResult(messages, warnings))
    /\ pc' = "return"
    /\ UNCHANGED <<href, dom, options, messageElements, evaluated, elementsToProcess, index, processed,
                   messages, warnings, result, thrown>>
    /\ UNCHANGED <<functionVars, jobVars, contentVars>>

\* extractConversation after extractMessages returned
ExtractConversationReturn ==
    /\ pc = "return"
    /\ LET r == messagesResult[1]
       IN  result' =
             IF ~r.success \/ r.data = None
             THEN Some(Failure(IF r.error # None /\ r.error[1] # "" THEN r.error[1]
                               ELSE "Failed to extract messages",
                               r.warnings))
             ELSE Some(Success([id |-> getConversationIdFromUrl(href)[1], url |-> href,
                                messages |-> r.data[1], messageCount |-> Len(r.data[1])],
                               r.warnings))
    /\ pc' = "done"
    /\ UNCHANGED <<href, dom, options, messageElements, evaluated, elementsToProcess, index, processed,
                   messages, warnings, messagesResult, thrown>>
    /\ UNCHANGED <<functionVars, jobVars, contentVars>>

Next ==
    \/ ExtractConversationCall
    \/ ExtractMessagesBegin
    \/ ParseNext
    \/ ExtractMessagesEnd
    \/ ExtractConversationReturn

Spec == Init /\ [][Next]_vars

(***************************************************************************)
(* parseContentBlocks and parseTableBlock called on their own.  The        *)
(* document is html > body > content element, and the content element      *)
(* holds a few children, each one of the kinds below; or it holds one      *)
(* table of a grid of cells.                                               *)
(***************************************************************************)
\* <pre><code class="language-js">x=1</code></pre>
CodeKid(d) ==
    << At(d, Element("pre", NoAttrs)),
       At(d + 1, Element("code", "class" :> "language-js")),
       At(d + 2, Text("x=1")) >>

\* <pre>t<code></code></pre>: the code element is empty, the pre is not
HollowKid(d) ==
    << At(d, Element("pre", NoAttrs)),
       At(d + 1, Text("t")),
       At(d + 1, Element("code", NoAttrs)) >>

\* <div data-thinking="" class="collapsed">why</div>
ThinkKid(d) ==
    << At(d, Element("div", ("data-thinking" :> "") @@ ("class" :> "collapsed"))),
       At(d + 1, Text("why")) >>

\* <pre class="thinking">so</pre>: a code container that is a thinking block
ThinkPreKid(d) ==
    << At(d, Element("pre", "class" :> "thinking")),
       At(d + 1, Text("so")) >>

\* <table class="thinking"><tr><th>k</th></tr><tr><td>v</td></tr></table>
TableKid(d) ==
    << At(d, Element("table", "class" :> "thinking")),
       At(d + 1, Element("tr", NoAttrs)),
       At(d + 2, Element("th", NoAttrs)),
       At(d + 3, Text("k")),
       At(d + 1, Element("tr", NoAttrs)),
       At(d + 2, Element("td", NoAttrs)),
       At(d + 3, Text("v")) >>

\* <ol data-thinking=""><li>a</li><li>b</li></ol>: a list that is a thinking block
ListKid(d) ==
    << At(d, Element("ol", "data-thinking" :> "")),
       At(d + 1, Element("li", NoAttrs)),
       At(d + 2, Text("a")),
       At(d + 1, Element("li", NoAttrs)),
       At(d + 2, Text("b")) >>

\* <ul><span>z</span></ul>: a list without items
NoItemKid(d) ==
    << At(d, Element("ul", NoAttrs)),
       At(d + 1, Element("span", NoAttrs)),
       At(d + 2, Text("z")) >>

\* <p>hi $x$</p>
ParagraphKid(d) ==
    << At(d, Element("p", NoAttrs)),
       At(d + 1, Text("hi $x$")) >>

\* <p> </p>
BlankKid(d) ==
    << At(d, Element("p", NoAttrs)),
       At(d + 1, Text(" ")) >>

\* an inline SVG icon
SvgKid(d) == << At(d, SvgElement("svg", NoAttrs)) >>

\* a text node that is a direct child of the content element
NoteKid(d) == << At(d, Text("n")) >>

Kids == {"code", "hollow", "think", "thinkpre", "table", "list", "noitem", "p", "blank", "svg", "note"}

KidOutline(kid, d) ==
    CASE kid = "code"     -> CodeKid(d)
      [] kid = "hollow"   -> HollowKid(d)
      [] kid = "think"    -> ThinkKid(d)
      [] kid = "thinkpre" -> ThinkPreKid(d)
      [] kid = "table"    -> TableKid(d)
      [] kid = "list"     -> ListKid(d)
      [] kid = "noitem"   -> NoItemKid(d)
      [] kid = "p"        -> ParagraphKid(d)
      [] kid = "blank"    -> BlankKid(d)
      [] kid = "svg"      -> SvgKid(d)
      [] kid = "note"     -> NoteKid(d)

\* the content element of the documents below
ContentElement == 3

\* html > body > div.markdown > the outline
ContentPageOf(outline) ==
    HeapOf(<< At(0, Element("html", NoAttrs)),
              At(1, Element("body", NoAttrs)),
              At(2, Element("div", "class" :> "markdown")) >> \o outline)

\* the most children of the content element
MaxKids == 2

ContentPages ==
    {ContentPageOf(Concat([k \in 1..Len(kids) |-> KidOutline(kids[k], 3)])) :
        kids \in UNION {[1..n -> Kids] : n \in 0..MaxKids}}

\* the text of the header cell j and of the cell j of the body row i
HeaderText(j) == "h" \o Decimal(j)
CellText(i, j) == "r" \o Decimal(i) \o "c" \o Decimal(j)

\* <tr> with the header cells 1..h, each a <th> or a <td>
HeaderRow(d, tag, h) ==
    << At(d, Element("tr", NoAttrs)) >>
    \o Concat([j \in 1..h |-> << At(d + 1, Element(tag, NoAttrs)), At(d + 2, Text(HeaderText(j))) >>])

\* the body row i: <tr>, a <th> row header when rowHeader, and c <td> cells
BodyRow(d, i, c, rowHeader) ==
    << At(d, Element("tr", NoAttrs)) >>
    \o (IF rowHeader THEN << At(d + 1, Element("th", NoAttrs)), At(d + 2, Text("k" \o Decimal(i))) >> ELSE <<>>)
    \o Concat([j \in 1..c |-> << At(d + 1, Element("td", NoAttrs)), At(d + 2, Text(CellText(i, j))) >>])

\* a table of h header cells and r body rows of c cells: the header row in
\* a <thead> when g.head, else the first row; the rows in a <tbody> when
\* g.body, else children of the table
GridOutline(d, g) ==
    << At(d, Element("table", NoAttrs)) >>
    \o (IF g.head THEN << At(d + 1, Element("thead", NoAttrs)) >> \o HeaderRow(d + 2, g.tag, g.h) ELSE <<>>)
    \o (IF g.body THEN << At(d + 1, Element("tbody", NoAttrs)) >> ELSE <<>>)
    \o (IF g.head THEN <<>> ELSE HeaderRow(IF g.body THEN d + 2 ELSE d + 1, g.tag, g.h))
    \o Concat([i \in 1..g.r |-> BodyRow(IF g.body THEN d + 2 ELSE d + 1, i, g.c, g.rowHeader)])

\* the most header cells, body rows and cells of a row
MaxGrid == 2

Grids ==
    [head : BOOLEAN, body : BOOLEAN, tag : {"th", "td"}, rowHeader : BOOLEAN,
     h : 1..MaxGrid, r : 1..MaxGrid, c : 1..MaxGrid]

TablePages == {ContentPageOf(GridOutline(3, g)) : g \in Grids}

\* the options a caller may give, maxMessages aside
SegmentOptions ==
    {[OptionsOf(0) EXCEPT !.parseCodeBlocks = c, !.parseTables = t, !.includeThinkingBlocks = k] :
        c \in BOOLEAN, t \in BOOLEAN, k \in BOOLEAN}

\* the extraction is not running
ExtractionIdle ==
    /\ href = ""
    /\ pc = "idle"
    /\ messageElements = <<>>
    /\ evaluated = <<>>
    /\ elementsToProcess = <<>>
    /\ index = 0
    /\ processed = <<>>
    /\ messages = <<>>
    /\ warnings = <<>>
    /\ messagesResult = None
    /\ result = None
    /\ thrown = FALSE

SegmentInit ==
    /\ dom \in ContentPages \cup TablePages
    /\ options \in SegmentOptions
    /\ ExtractionIdle
    /\ NoContentScript
    /\ NoFunctionCall
    /\ NoExport

Returned(name, value) == Some([of |-> name, value |-> value])

\* the table the content element holds first, Null when it holds none
FirstTable(h) == FirstOf(SelectSeq(ChildElements(h, ContentElement), LAMBDA n : h[n].tag = "table"))

\* parseContentBlocks(contentElement, options)
ParseContentBlocksCall ==
    /\ returned = None
    /\ \E parsed \in {parseContentBlocks(dom, ContentElement, options)} :
          /\ returned' = Returned("parseContentBlocks", [threw |-> parsed.threw, blocks |-> parsed.blocks])
          /\ dom' = Collect(parsed.heap)
    /\ UNCHANGED <<href, options, pc, messageElements, evaluated, elementsToProcess, index, processed,
                   messages, warnings, messagesResult, result, thrown, text, library, jobVars, contentVars>>

\* parseTableBlock(element)
ParseTableBlockCall ==
    /\ returned = None
    /\ FirstTable(dom) # Null
    /\ returned' = Returned("parseTableBlock", parseTableBlock(dom, FirstTable(dom)))
    /\ UNCHANGED <<href, dom, options, pc, messageElements, evaluated, elementsToProcess, index, processed,
                   messages, warnings, messagesResult, result, thrown, text, library, jobVars, contentVars>>

SegmentNext ==
    \/ ParseContentBlocksCall
    \/ ParseTableBlockCall

SegmentSpec == SegmentInit /\ [][SegmentNext]_vars

(***************************************************************************)
(* createTextBlock called on its own, on the texts made of a few pieces.   *)
(***************************************************************************)
\* the strings made of at most n of the pieces
TextsOf(pieces, n) == {Concat(s) : s \in UNION {[1..k -> pieces] : k \in 0..n}}

\* the most pieces of a text given to createTextBlock
MaxPieces == 5

DollarTexts == TextsOf({"$", "x^2", " "}, MaxPieces)

TextBlockInit ==
    /\ text \in DollarTexts
    /\ options \in {[OptionsOf(0) EXCEPT !.parseLaTeX = p] : p \in BOOLEAN}
    /\ dom = <<>>
    /\ library = "renders"
    /\ returned = None
    /\ ExtractionIdle
    /\ NoContentScript
    /\ NoExport

\* createTextBlock(text, options)
CreateTextBlockCall ==
    /\ returned = None
    /\ returned' = Returned("createTextBlock", createTextBlock(text, options))
    /\ UNCHANGED <<href, dom, options, pc, messageElements, evaluated, elementsToProcess, index, processed,
                   messages, warnings, messagesResult, result, thrown, text, library, jobVars, contentVars>>

TextBlockNext == CreateTextBlockCall

TextBlockSpec == TextBlockInit /\ [][TextBlockNext]_vars

(***************************************************************************)
(* The notation repair passes called on their own: each on a formula made  *)
(* of a few symbols, and again on what it returned.  returned holds the    *)
(* outputs of the successive calls.                                        *)
(***************************************************************************)
\* the most symbols of a formula, and the most calls of a pass in a row
MaxSymbols == 3
MaxPasses == 2

Formulas ==
    TextsOf({"\\", "$", ".", "^", "{", "}", "\\underline{x}", "\\right}"}, MaxSymbols)

RepairInit ==
    /\ text \in Formulas
    /\ options = OptionsOf(0)
    /\ dom = <<>>
    /\ library = "renders"
    /\ returned = None
    /\ ExtractionIdle
    /\ NoContentScript
    /\ NoExport

\* the pass may be called: on the formula, or again on its last output
MayRepair(name) ==
    IF returned = None THEN TRUE
    ELSE returned[1].of = name /\ Len(returned[1].value) < MaxPasses

\* what the next call of the pass is given
RepairInput == IF returned = None THEN text ELSE returned[1].value[Len(returned[1].value)]

\* the outputs so far
RepairOutputs == IF returned = None THEN <<>> ELSE returned[1].value

\* fixCorruptedLatexPatterns(text)
FixCorruptedLatexPatternsCall ==
    /\ MayRepair("fixCorruptedLatexPatterns")
    /\ returned' = Returned("fixCorruptedLatexPatterns",
                            Append(RepairOutputs, fixCorruptedLatexPatterns(RepairInput)))
    /\ UNCHANGED <<href, dom, options, pc, messageElements, evaluated, elementsToProcess, index, processed,
                   messages, warnings, messagesResult, result, thrown, text, library, jobVars, contentVars>>

\* cleanLatexContent(latex)
CleanLatexContentCall ==
    /\ MayRepair("cleanLatexContent")
    /\ returned' = Returned("cleanLatexContent", Append(RepairOutputs, cleanLatexContent(RepairInput)))
    /\ UNCHANGED <<href, dom, options, pc, messageElements, evaluated, elementsToProcess, index, processed,
                   messages, warnings, messagesResult, result, thrown, text, library, jobVars, contentVars>>

\* cleanExtractedLatex(latex)
CleanExtractedLatexCall ==
    /\ MayRepair("cleanExtractedLatex")
    /\ returned' = Returned("cleanExtractedLatex", Append(RepairOutputs, cleanExtractedLatex(RepairInput)))
    /\ UNCHANGED <<href, dom, options, pc, messageElements, evaluated, elementsToProcess, index, processed,
                   messages, warnings, messagesResult, result, thrown, text, library, jobVars, contentVars>>

RepairNext ==
    \/ FixCorruptedLatexPatternsCall
    \/ CleanLatexContentCall
    \/ CleanExtractedLatexCall

RepairSpec == RepairInit /\ [][RepairNext]_vars

(***************************************************************************)
(* renderLatex and its two wrappers called on their own, on a formula of   *)
(* a few characters, with the rendering library behaving in one of its     *)
(* three ways.                                                             *)
(***************************************************************************)
\* the most characters of a formula given to renderLatex
MaxFormula == 3

RenderTexts == TextsOf({" ", "a", ".", "<", "&", "\""}, MaxFormula)

RenderInit ==
    /\ text \in RenderTexts
    /\ library \in LibraryBehaviours
    /\ options = OptionsOf(0)
    /\ dom = <<>>
    /\ returned = None
    /\ ExtractionIdle
    /\ NoContentScript
    /\ NoExport

\* a call with its arguments and what it gave
Called(opts, out) == [options |-> opts, out |-> out]

\* renderLatex(latex, options)
RenderLatexCall ==
    /\ returned = None
    /\ \E displayMode \in BOOLEAN, throwOnError \in BOOLEAN :
          returned' = Returned("renderLatex",
                               Called(RenderOptions(displayMode, throwOnError),
                                      renderLatex(text, RenderOptions(displayMode, throwOnError), library)))
    /\ UNCHANGED <<href, dom, options, pc, messageElements, evaluated, elementsToProcess, index, processed,
                   messages, warnings, messagesResult, result, thrown, text, library, jobVars, contentVars>>

\* renderInlineMath(latex)
RenderInlineMathCall ==
    /\ returned = None
    /\ returned' = Returned("renderInlineMath",
                            Called(RenderOptions(FALSE, FALSE), renderInlineMath(text, library)))
    /\ UNCHANGED <<href, dom, options, pc, messageElements, evaluated, elementsToProcess, index, processed,
                   messages, warnings, messagesResult, result, thrown, text, library, jobVars, contentVars>>

\* renderBlockMath(latex)
RenderBlockMathCall ==
    /\ returned = None
    /\ returned' = Returned("renderBlockMath",
                            Called(RenderOptions(TRUE, FALSE), renderBlockMath(text, library)))
    /\ UNCHANGED <<href, dom, options, pc, messageElements, evaluated, elementsToProcess, index, processed,
                   messages, warnings, messagesResult, result, thrown, text, library, jobVars, contentVars>>

RenderNext ==
    \/ RenderLatexCall
    \/ RenderInlineMathCall
    \/ RenderBlockMathCall

RenderSpec == RenderInit /\ [][RenderNext]_vars

(***************************************************************************)
(* processTextWithLatex called on its own, on a text of a few delimiters   *)
(* and letters or of one block span with a letter or a dollar around it.   *)
(***************************************************************************)
BlockSpans ==
    {"$$x$$", "\\[x\\]", "\\begin{equation}x\\end{equation}", "\\begin{align*}$x$\\end{align*}", "\\[\\(x\\)\\]"}

ProcessTexts ==
    TextsOf({"$", "$$", "x", "\\(", "\\)"}, MaxPieces)
        \cup {pre \o span \o post : pre \in {"", "x", "$x"}, span \in BlockSpans, post \in {"", "x", "x$"}}

ProcessInit ==
    /\ text \in ProcessTexts
    /\ library \in LibraryBehaviours
    /\ options = OptionsOf(0)
    /\ dom = <<>>
    /\ returned = None
    /\ ExtractionIdle
    /\ NoContentScript
    /\ NoExport

\* processTextWithLatex(text)
ProcessTextWithLatexCall ==
    /\ returned = None
    /\ returned' = Returned("processTextWithLatex", processTextWithLatex(text, library))
    /\ UNCHANGED <<href, dom, options, pc, messageElements, evaluated, elementsToProcess, index, processed,
                   messages, warnings, messagesResult, result, thrown, text, library, jobVars, contentVars>>

ProcessNext == ProcessTextWithLatexCall

ProcessSpec == ProcessInit /\ [][ProcessNext]_vars

(***************************************************************************)
(* The export handlers of the background script: handleStartExport,        *)
(* executeExport and the job record currentJob.  JavaScript runs each      *)
(* handler and each continuation of an await to its next await without     *)
(* interruption, so an action is one such run.  exports[j] is the call of  *)
(* executeExport for job j: where it waits, and what it carries.           *)
(***************************************************************************)
\* MESSAGE_LIMITS.max
MessageLimitMax == 1000

\* the most exports started
MaxJobs == 2

\* the numbers of selected messages and the formats of a START_EXPORT
SelectedCounts == {0, 1, MessageLimitMax, MessageLimitMax + 1}
ExportFormats == {"pdf", "markdown"}

\* the numbers of pages of a document (for these the scaled progress below
\* is what the floating point arithmetic of the code gives)
PdfPages == {1, 2}

JobInit ==
    /\ currentJob = None
    /\ exports = <<>>
    /\ text = ""
    /\ library = "renders"
    /\ options = OptionsOf(0)
    /\ dom = <<>>
    /\ returned = None
    /\ ExtractionIdle
    /\ NoContentScript

\* createExportErrorMessage and createExportProgressMessage
ExportErrorMessage(jobId, error, recoverable) ==
    [type |-> "EXPORT_ERROR", jobId |-> jobId, error |-> error, recoverable |-> recoverable]
ExportProgressMessage(jobId, status, progress) ==
    [type |-> "EXPORT_PROGRESS", jobId |-> jobId, status |-> status, progress |-> progress]

\* the job record handleStartExport installs
NewJob(jobId, format) ==
    [id |-> jobId, format |-> format, status |-> "pending", progress |-> 0, error |-> None,
     completedAt |-> FALSE]

\* a faulty updateJobStatus that does not compare the ids
updateJobStatusOfAnyJob(job, jobId, status, progress) ==
    IF job # None
    THEN Some([job[1] EXCEPT !.status = status, !.progress = progress])
    ELSE job

\* updateJobStatus(jobId, status, progress) on the job record job
updateJobStatus(job, jobId, status, progress) ==
    IF job # None /\ job[1].id = jobId
    THEN Some([job[1] EXCEPT !.status = status, !.progress = progress])
    ELSE job

\* the progress callback given to the exporter: 30 + Math.floor(progress * 0.6)
ScaledProgress(progress) == 30 + (progress * 6) \div 10
OnProgress(job, jobId, progress) == updateJobStatus(job, jobId, "generating", ScaledProgress(progress))

\* the callback called with each of the reports in turn
RECURSIVE OnProgressEach(_, _, _)
OnProgressEach(job, jobId, reports) ==
    IF reports = <<>> THEN job
    ELSE OnProgressEach(OnProgress(job, jobId, Head(reports)), jobId, Tail(reports))

\* what the exporter reports before it waits for the canvas, and after it:
\* 70 + Math.min(20, ((pageNum + 1) / totalPages) * 20) after each page
ReportsBeforeCanvas == <<0, 10, 30>>
ReportsAfterCanvas(totalPages) ==
    <<60, 70>> \o [k \in 1..totalPages |-> 70 + (k * 20) \div totalPages] \o <<95, 100>>

\* the catch block of executeExport
Failed(job, jobId, message) ==
    IF job # None /\ job[1].id = jobId
    THEN Some([job[1] EXCEPT !.status = "failed", !.progress = 0, !.error = Some(message),
                             !.completedAt = TRUE])
    ELSE job

\* the end of the try block of executeExport
Completed(job, jobId) ==
    IF job # None /\ job[1].id = jobId
    THEN Some([job[1] EXCEPT !.status = "completed", !.completedAt = TRUE])
    ELSE job

\* the call of executeExport for job j: where it waits, the messages that
\* were sent to the tab for the job, and whether one of its updates found
\* currentJob null or another job
Export(at, format, error) ==
    [pc |-> at, format |-> format, error |-> error, sent |-> <<>>, stale |-> FALSE]
ExportAt(j, at) == j \in 1..Len(exports) /\ exports[j].pc = at

\* sendProgressToTab, sendErrorToTab and sendCompletionToTab: the message sent
TabProgress(status, progress) == [type |-> "EXPORT_PROGRESS", status |-> status, progress |-> progress]
TabError == [type |-> "EXPORT_ERROR", status |-> "failed", progress |-> 0]
TabComplete == [type |-> "EXPORT_COMPLETE", status |-> "completed", progress |-> 100]

\* the messages the progress callback sends for the reports
TabReports(reports) == [k \in 1..Len(reports) |-> TabProgress("generating", ScaledProgress(reports[k]))]

\* the test of every update of executeExport: currentJob && currentJob.id === jobId
IsCurrentJob(job, jobId) == job # None /\ job[1].id = jobId

\* the call of executeExport for job j goes on: to at, having sent the
\* messages and met the error
Goes(j, at, sent, error) ==
    [exports EXCEPT ![j].pc = at, ![j].sent = @ \o sent, ![j].error = error,
                    ![j].stale = @ \/ ~IsCurrentJob(currentJob, j)]

\* a faulty test that refuses exactly the maximum
TooManySelectedInclusive(n) == n >= MessageLimitMax

\* selectedMessageIds.length > MESSAGE_LIMITS.max
TooManySelected(n) == n > MessageLimitMax

\* a call of handleStartExport: the number of selected ids and the response
StartExportCall(n, response) == [selected |-> n, response |-> response]

\* handleStartExport(message, sender), with executeExport up to its first
\* await
HandleStartExport ==
    /\ \E n \in SelectedCounts, format \in ExportFormats :
           IF n = 0
           THEN /\ returned' = Returned("handleStartExport",
                                        StartExportCall(n,
                                            ExportErrorMessage("error-no-messages",
                                                               "No messages selected for export", TRUE)))
                /\ UNCHANGED jobVars
           ELSE IF TooManySelected(n)
           THEN /\ returned' = Returned("handleStartExport",
                                        StartExportCall(n,
                                            ExportErrorMessage("error-limit-exceeded",
                                                               "Conversation exceeds 1000 message limit",
                                                               FALSE)))
                /\ UNCHANGED jobVars
           ELSE /\ Len(exports) < MaxJobs
                /\ currentJob' = updateJobStatus(Some(NewJob(Len(exports) + 1, format)),
                                                 Len(exports) + 1, "extracting", 10)
                /\ exports' = Append(exports,
                                     [Export("saving", format, None)
                                          EXCEPT !.sent = <<TabProgress("pending", 0),
                                                            TabProgress("extracting", 10)>>])
                /\ returned' = Returned("handleStartExport",
                                        StartExportCall(n,
                                            ExportProgressMessage(Len(exports) + 1, "pending", 0)))
    /\ UNCHANGED <<href, dom, options, pc, messageElements, evaluated, elementsToProcess, index, processed,
                   messages, warnings, messagesResult, result, thrown, text, library, contentVars>>

\* executeExport after await setLastExportFormat, up to the exporter's
\* await of the canvas, or to its return when it throws before that
ExecuteExportRender ==
    /\ \E j \in 1..Len(exports) :
           /\ ExportAt(j, "saving")
           /\ IF exports[j].format # "pdf"
              THEN /\ currentJob' = Failed(updateJobStatus(currentJob, j, "rendering", 20), j,
                                           "Export format not yet implemented")
                   /\ exports' = Goes(j, "done", <<TabProgress("rendering", 20), TabError>>, None)
              ELSE \E reached \in 0..Len(ReportsBeforeCanvas) :
                       /\ currentJob' = OnProgressEach(
                                            updateJobStatus(updateJobStatus(currentJob, j, "rendering", 20),
                                                            j, "generating", 30),
                                            j, SubSeq(ReportsBeforeCanvas, 1, reached))
                       /\ exports' = Goes(j, IF reached = Len(ReportsBeforeCanvas)
                                                 THEN "canvas" ELSE "exported",
                                             <<TabProgress("rendering", 20)>>
                                                 \o TabReports(SubSeq(ReportsBeforeCanvas, 1, reached)),
                                             IF reached = Len(ReportsBeforeCanvas)
                                             THEN None ELSE Some("PDF export error"))
    /\ UNCHANGED <<href, dom, options, pc, messageElements, evaluated, elementsToProcess, index, processed,
                   messages, warnings, messagesResult, result, thrown, functionVars, contentVars>>

\* the exporter after await html2canvas, to its return
ExporterAfterCanvas ==
    /\ \E j \in 1..Len(exports) :
           /\ ExportAt(j, "canvas")
           /\ \/ /\ UNCHANGED currentJob
                 /\ exports' = [exports EXCEPT ![j].pc = "exported", ![j].error = Some("PDF export error")]
              \/ \E totalPages \in PdfPages :
                    /\ currentJob' = OnProgressEach(currentJob, j, ReportsAfterCanvas(totalPages))
                    /\ exports' = Goes(j, "exported", TabReports(ReportsAfterCanvas(totalPages)), None)
    /\ UNCHANGED <<href, dom, options, pc, messageElements, evaluated, elementsToProcess, index, processed,
                   messages, warnings, messagesResult, result, thrown, functionVars, contentVars>>

\* executeExport after await exporter.export, up to await triggerDownload
ExecuteExportDownload ==
    /\ \E j \in 1..Len(exports) :
           /\ ExportAt(j, "exported")
           /\ IF exports[j].error # None
              THEN /\ currentJob' = Failed(currentJob, j, exports[j].error[1])
                   /\ exports' = Goes(j, "done", <<TabError>>, exports[j].error)
              ELSE /\ currentJob' = updateJobStatus(currentJob, j, "completed", 100)
                   /\ exports' = Goes(j, "download", <<>>, None)
    /\ UNCHANGED <<href, dom, options, pc, messageElements, evaluated, elementsToProcess, index, processed,
                   messages, warnings, messagesResult, result, thrown, functionVars, contentVars>>

\* the callback of chrome.downloads.download and executeExport after await
\* triggerDownload: the download started, or it did not
ExecuteExportEnd ==
    /\ \E j \in 1..Len(exports) :
           /\ ExportAt(j, "download")
           /\ \/ /\ currentJob' = Completed(currentJob, j)
                 /\ exports' = Goes(j, "done", <<TabComplete>>, None)
              \/ /\ currentJob' = Failed(currentJob, j, "Download failed to start")
                 /\ exports' = Goes(j, "done", <<TabError>>, Some("Download failed to start"))
    /\ UNCHANGED <<href, dom, options, pc, messageElements, evaluated, elementsToProcess, index, processed,
                   messages, warnings, messagesResult, result, thrown, functionVars, contentVars>>

\* clearCurrentExportJob()
ClearCurrentExportJob ==
    /\ currentJob' = None
    /\ UNCHANGED <<href, dom, options, pc, messageElements, evaluated, elementsToProcess, index, processed,
                   messages, warnings, messagesResult, result, thrown, functionVars, exports, contentVars>>

JobNext ==
    \/ HandleStartExport
    \/ ExecuteExportRender
    \/ ExporterAfterCanvas
    \/ ExecuteExportDownload
    \/ ExecuteExportEnd
    \/ ClearCurrentExportJob

JobSpec == JobInit /\ [][JobNext]_vars

(***************************************************************************)
(* The export button of the toolbar.  handleExportClick extracts the       *)
(* conversation, tests its messageCount against MESSAGE_LIMITS, awaits      *)
(* getConfig and then executeExport of the content script.  A click is a   *)
(* record of where its call is, what it extracted, the notifications it    *)
(* showed and whether it called executeExport; clicks may overlap, each    *)
(* action is one run of the call from one await to the next.               *)
(***************************************************************************)
MessageLimitWarning == 500
MaxClicks == 2

\* the message counts an extraction may give, around the two limits
MessageCounts ==
    {1, MessageLimitWarning, MessageLimitWarning + 1, MessageLimitMax, MessageLimitMax + 1}

\* what extractConversation returned to handleExportClick: a failure, or a
\* conversation of messageCount messages, all of them selected
ExtractionResults ==
    {[success |-> FALSE, messageCount |-> 0]}
        \cup {[success |-> TRUE, messageCount |-> n] : n \in MessageCounts}

\* a faulty test that refuses a conversation of exactly the maximum
ExceedsMaxInclusive(messageCount) == messageCount >= MessageLimitMax

\* the tests of handleExportClick on conversation.messageCount
ExceedsMax(messageCount) == messageCount > MessageLimitMax
ExceedsWarning(messageCount) == messageCount > MessageLimitWarning

\* showError(title, ...), showWarning(...), showSuccess(...): the element each appends
ErrorNotification(title) == [kind |-> "error", title |-> title]
WarningNotification(message) == [kind |-> "warning", title |-> message]
SuccessNotification == [kind |-> "success", title |-> "Export complete!"]

\* showProgress, updateProgress and hideProgress on the overlay
Clamp(progress) == IF progress < 0 THEN 0 ELSE IF progress > 100 THEN 100 ELSE progress
updateProgress(overlay, progress) ==
    IF overlay = None THEN None ELSE Some([overlay[1] EXCEPT !.width = Clamp(progress)])
showProgress(overlay, progress) ==
    Some([display |-> "flex", width |-> Clamp(progress)])
hideProgress(overlay) ==
    IF overlay = None THEN None ELSE Some([overlay[1] EXCEPT !.display = "none"])

\* the progress executeExport of the content script reports for the exporter's
ScaledExportProgress(progress) == 30 + progress \div 2

Click(at, extraction, shown) ==
    [pc |-> at, success |-> extraction.success, messageCount |-> extraction.messageCount,
     shown |-> shown, executed |-> FALSE, exported |-> FALSE]

ClickInit ==
    /\ clicks = <<>>
    /\ progressOverlay = None
    /\ lastUrl = ""
    /\ toolbars = 0
    /\ inits = <<>>
    /\ storage = None
    /\ saves = <<>>
    /\ href = ""
    /\ dom = <<>>
    /\ options = OptionsOf(0)
    /\ pc = "idle"
    /\ messageElements = <<>>
    /\ evaluated = <<>>
    /\ elementsToProcess = <<>>
    /\ index = 0
    /\ processed = <<>>
    /\ messages = <<>>
    /\ warnings = <<>>
    /\ messagesResult = None
    /\ result = None
    /\ thrown = FALSE
    /\ NoFunctionCall
    /\ NoExport

\* handleExportClick up to its return or to await getConfig()
HandleExportClick ==
    /\ Len(clicks) < MaxClicks
    /\ \E extraction \in ExtractionResults :
           IF ~extraction.success
           THEN /\ progressOverlay' = hideProgress(showProgress(progressOverlay, 0))
                /\ clicks' = Append(clicks, Click("done", extraction,
                                                  <<ErrorNotification("Extraction Failed")>>))
           ELSE IF ExceedsMax(extraction.messageCount)
           THEN /\ progressOverlay' = hideProgress(showProgress(progressOverlay, 0))
                /\ clicks' = Append(clicks, Click("done", extraction,
                                                  <<ErrorNotification("Too Many Messages")>>))
           ELSE /\ progressOverlay' = updateProgress(showProgress(progressOverlay, 0), 10)
                /\ clicks' = Append(clicks,
                                    Click("config", extraction,
                                          IF ExceedsWarning(extraction.messageCount)
                                          THEN <<WarningNotification("Large conversation")>>
                                          ELSE <<>>))
    /\ UNCHANGED <<href, dom, options, pc, messageElements, evaluated, elementsToProcess, index, processed,
                   messages, warnings, messagesResult, result, thrown, functionVars, jobVars,
                   pageVars, storeVars>>

\* getConfig resolved: handleExportClick calls executeExport, which runs up to
\* its return for a format other than pdf, or to await exporter.export(...)
ClickExecuteExport ==
    /\ \E i \in 1..Len(clicks), format \in ExportFormats :
           /\ clicks[i].pc = "config"
           /\ IF format # "pdf"
              THEN /\ progressOverlay' = updateProgress(progressOverlay, 10)
                   /\ clicks' = [clicks EXCEPT ![i].pc = "returned", ![i].executed = TRUE]
              ELSE /\ progressOverlay' = updateProgress(progressOverlay, 30)
                   /\ clicks' = [clicks EXCEPT ![i].pc = "exporting", ![i].executed = TRUE]
    /\ UNCHANGED <<href, dom, options, pc, messageElements, evaluated, elementsToProcess, index, processed,
                   messages, warnings, messagesResult, result, thrown, functionVars, jobVars,
                   pageVars, storeVars>>

\* the exporter reports its progress and settles: executeExport returns a
\* failure, or goes on to await triggerDownload(...)
ClickExporterSettles ==
    /\ \E i \in 1..Len(clicks), k \in 1..Len(ReportsBeforeCanvas), failed \in BOOLEAN :
           /\ clicks[i].pc = "exporting"
           /\ IF failed
              THEN /\ progressOverlay' = updateProgress(progressOverlay,
                                                        ScaledExportProgress(ReportsBeforeCanvas[k]))
                   /\ clicks' = [clicks EXCEPT ![i].pc = "returned"]
              ELSE /\ k = Len(ReportsBeforeCanvas)
                   /\ progressOverlay' = updateProgress(progressOverlay, 85)
                   /\ clicks' = [clicks EXCEPT ![i].pc = "downloading"]
    /\ UNCHANGED <<href, dom, options, pc, messageElements, evaluated, elementsToProcess, index, processed,
                   messages, warnings, messagesResult, result, thrown, functionVars, jobVars,
                   pageVars, storeVars>>

\* the timer of triggerDownload fired: executeExport returns its success
ClickDownloaded ==
    /\ \E i \in 1..Len(clicks) :
           /\ clicks[i].pc = "downloading"
           /\ progressOverlay' = updateProgress(progressOverlay, 100)
           /\ clicks' = [clicks EXCEPT ![i].pc = "returned", ![i].exported = TRUE]
    /\ UNCHANGED <<href, dom, options, pc, messageElements, evaluated, elementsToProcess, index, processed,
                   messages, warnings, messagesResult, result, thrown, functionVars, jobVars,
                   pageVars, storeVars>>

\* handleExportClick after await executeExport(...)
ClickEnd ==
    /\ \E i \in 1..Len(clicks) :
           /\ clicks[i].pc = "returned"
           /\ progressOverlay' = hideProgress(progressOverlay)
           /\ clicks' = [clicks EXCEPT ![i].pc = "done",
                                       ![i].shown = Append(@, IF clicks[i].exported
                                                              THEN SuccessNotification
                                                              ELSE ErrorNotification("Export Failed"))]
    /\ UNCHANGED <<href, dom, options, pc, messageElements, evaluated, elementsToProcess, index, processed,
                   messages, warnings, messagesResult, result, thrown, functionVars, jobVars,
                   pageVars, storeVars>>

\* handleCancelClick
HandleCancelClick ==
    /\ progressOverlay # None
    /\ progressOverlay[1].display = "flex"
    /\ progressOverlay' = hideProgress(progressOverlay)
    /\ UNCHANGED <<href, dom, options, pc, messageElements, evaluated, elementsToProcess, index, processed,
                   messages, warnings, messagesResult, result, thrown, functionVars, jobVars,
                   clicks, pageVars, storeVars>>

ClickNext ==
    \/ HandleExportClick
    \/ ClickExecuteExport
    \/ ClickExporterSettles
    \/ ClickDownloaded
    \/ ClickEnd
    \/ HandleCancelClick

ClickSpec == ClickInit /\ [][ClickNext]_vars

(***************************************************************************)
(* The content script on a page.  At a page load the script runs           *)
(* initialize and setupUrlChangeDetection; initialize returns at once on   *)
(* an address that is no conversation page, and otherwise awaits           *)
(* waitForConversationContent and then calls injectToolbar.  The page      *)
(* changes its address without a load (history.pushState) and mutates its  *)
(* document; the observers of the script are notified of the mutations of  *)
(* the child lists below document.body, and of no others.                  *)
(***************************************************************************)
MaxInits == 2

\* the variables of a call of extractConversation
parserVars == <<options, pc, messageElements, evaluated, elementsToProcess, index, processed,
                messages, warnings, messagesResult, result, thrown>>

\* window.location.href of the pages
PageHrefs == {"https://chatgpt.com/c/a1", "https://chatgpt.com/c/b2", "https://chatgpt.com/"}

\* the documents of the pages: without a message, with a message element
\* that has no role yet, and with a message element that has its role
PageDocuments ==
    { HeapOf(<< At(0, Element("html", NoAttrs)), At(1, Element("body", NoAttrs)),
                At(2, Element("main", NoAttrs)) >>),
      HeapOf(<< At(0, Element("html", NoAttrs)), At(1, Element("body", NoAttrs)),
                At(2, Element("main", NoAttrs)), At(3, Element("div", NoAttrs)) >>),
      HeapOf(<< At(0, Element("html", NoAttrs)), At(1, Element("body", NoAttrs)),
                At(2, Element("main", NoAttrs)),
                At(3, Element("div", "data-message-author-role" :> "assistant")) >>) }

\* document.querySelector('[data-message-author-role]') finds an element
HasContent(h) == Strategy3(h) # <<>>

\* the mutation that turns the document h into g changes child lists, or
\* only the attributes of the elements
ChildListMutation(h, g) ==
    \/ Len(h) # Len(g)
    \/ \E n \in 1..Len(h) : h[n].tag # g[n].tag \/ h[n].parent # g[n].parent \/ h[n].kids # g[n].kids

\* observer.observe(document.body, {childList: true, subtree: true})
Observed(h, g) == ChildListMutation(h, g)

\* initialize() up to its return or its await: the call skipped the page,
\* or waitForConversationContent resolved at once, or it observes and has
\* set its timer
initialize(h, d) ==
    IF ~isConversationPage(h)
    THEN [pc |-> "skipped", observer |-> "none", timer |-> "none", by |-> "none"]
    ELSE IF HasContent(d)
    THEN [pc |-> "resolved", observer |-> "none", timer |-> "none", by |-> "content"]
    ELSE [pc |-> "waiting", observer |-> "observing", timer |-> "pending", by |-> "none"]

\* resolve() of the promise of a call: it has an effect once
Resolve(init, by) ==
    IF init.pc = "waiting" THEN [init EXCEPT !.pc = "resolved", !.by = by] ELSE init

\* the callback of the observer of waitForConversationContent
OnMutation(init, d) ==
    IF init.observer = "observing" /\ HasContent(d)
    THEN Resolve([init EXCEPT !.observer = "disconnected"], "observer")
    ELSE init

\* a faulty timer callback that disconnects the observer and does not resolve
OnTimeoutWithoutResolve(init) ==
    [init EXCEPT !.timer = "fired",
                 !.observer = IF @ = "none" THEN "none" ELSE "disconnected"]

\* the callback of the timer of waitForConversationContent
OnTimeout(init) ==
    Resolve([init EXCEPT !.timer = "fired",
                         !.observer = IF @ = "none" THEN "none" ELSE "disconnected"],
            "timer")

\* injectToolbar(): the number of elements with the toolbar's id afterwards
injectToolbar(n) == IF n > 0 THEN n ELSE n + 1

PageInit ==
    /\ href \in PageHrefs
    /\ dom \in PageDocuments
    /\ lastUrl = href
    /\ toolbars = 0
    /\ inits = <<initialize(href, dom)>>
    /\ clicks = <<>>
    /\ progressOverlay = None
    /\ storage = None
    /\ saves = <<>>
    /\ options = OptionsOf(0)
    /\ pc = "idle"
    /\ messageElements = <<>>
    /\ evaluated = <<>>
    /\ elementsToProcess = <<>>
    /\ index = 0
    /\ processed = <<>>
    /\ messages = <<>>
    /\ warnings = <<>>
    /\ messagesResult = None
    /\ result = None
    /\ thrown = FALSE
    /\ NoFunctionCall
    /\ NoExport

\* the page is loaded: a new document, and the entry point of the script
PageLoad ==
    /\ \E h \in PageHrefs, d \in PageDocuments :
           /\ href' = h
           /\ dom' = d
           /\ lastUrl' = h
           /\ toolbars' = 0
           /\ inits' = <<initialize(h, d)>>
    /\ UNCHANGED <<parserVars, functionVars, jobVars, clickVars, storeVars>>

\* the page changes its address without a load
PushState ==
    /\ \E h \in PageHrefs \ {href} : href' = h
    /\ UNCHANGED <<dom, lastUrl, toolbars, inits>>
    /\ UNCHANGED <<parserVars, functionVars, jobVars, clickVars, storeVars>>

\* the page mutates its document; after an observed mutation the observers
\* of the waiting calls run, and the observer of setupUrlChangeDetection
Mutation ==
    /\ \E d \in PageDocuments \ {dom} :
           /\ dom' = d
           /\ IF ~Observed(dom, d)
              THEN UNCHANGED <<lastUrl, inits>>
              ELSE LET notified == [i \in 1..Len(inits) |-> OnMutation(inits[i], d)]
                   IN  IF href # lastUrl
                       THEN /\ Len(inits) < MaxInits
                            /\ lastUrl' = href
                            /\ inits' = Append(notified, initialize(href, d))
                       ELSE /\ lastUrl' = lastUrl
                            /\ inits' = notified
    /\ UNCHANGED <<href, toolbars>>
    /\ UNCHANGED <<parserVars, functionVars, jobVars, clickVars, storeVars>>

\* the timer of the call i fires
TimerFires(i) ==
    /\ i \in 1..Len(inits)
    /\ inits[i].timer = "pending"
    /\ inits' = [inits EXCEPT ![i] = OnTimeout(inits[i])]
    /\ UNCHANGED <<href, dom, lastUrl, toolbars>>
    /\ UNCHANGED <<parserVars, functionVars, jobVars, clickVars, storeVars>>

\* initialize after await waitForConversationContent()
InitializeContinues(i) ==
    /\ i \in 1..Len(inits)
    /\ inits[i].pc = "resolved"
    /\ toolbars' = injectToolbar(toolbars)
    /\ inits' = [inits EXCEPT ![i].pc = "done"]
    /\ UNCHANGED <<href, dom, lastUrl>>
    /\ UNCHANGED <<parserVars, functionVars, jobVars, clickVars, storeVars>>

PageNext ==
    \/ PageLoad
    \/ PushState
    \/ Mutation
    \/ \E i \in 1..MaxInits : TimerFires(i)
    \/ \E i \in 1..MaxInits : InitializeContinues(i)

PageSpec == PageInit /\ [][PageNext]_vars

\* a page that is never unloaded: its event loop runs every timer that is
\* due and every continuation of a settled promise
LoadedPageNext ==
    \/ PushState
    \/ Mutation
    \/ \E i \in 1..MaxInits : TimerFires(i)
    \/ \E i \in 1..MaxInits : InitializeContinues(i)

FairPageSpec ==
    /\ PageInit
    /\ [][LoadedPageNext]_vars
    /\ \A i \in 1..MaxInits : WF_vars(TimerFires(i)) /\ WF_vars(InitializeContinues(i))

(***************************************************************************)
(* The stored configuration.  saveConfig awaits getConfig, merges what it  *)
(* was given into what getConfig read, and awaits                          *)
(* chrome.storage.local.set of the merged record; the calls may overlap,   *)
(* and each storage operation may fail.  Two of the fields of ExportConfig *)
(* are modelled, each with its default and one other value.                *)
(***************************************************************************)
MaxSaves == 2

ConfigFields == {"format", "pageSize"}
ConfigValues == [format |-> {"pdf", "markdown"}, pageSize |-> {"a4", "letter"}]
DefaultExportConfig == [format |-> "pdf", pageSize |-> "a4"]

\* Partial<ExportConfig>: values for some of the fields, at least one
PartialConfigs ==
    UNION {{config \in [F -> {"pdf", "markdown", "a4", "letter"}] :
                \A f \in F : config[f] \in ConfigValues[f]} : F \in SUBSET ConfigFields \ {{}}}

\* { ...a, ...b }
Spread(a, b) == b @@ a

\* getConfig(): what it returns when the storage read gave stored, and when
\* the read failed
getConfig(stored, readFailed) ==
    IF readFailed \/ stored = None
    THEN DefaultExportConfig
    ELSE Spread(DefaultExportConfig, stored[1])

\* const updated = { ...current, ...config }
Updated(current, config) == Spread(current, config)

StoreInit ==
    /\ storage \in {None} \cup {Some(c) : c \in [format : ConfigValues.format,
                                                 pageSize : ConfigValues.pageSize]}
    /\ saves = <<>>
    /\ clicks = <<>>
    /\ progressOverlay = None
    /\ lastUrl = ""
    /\ toolbars = 0
    /\ inits = <<>>
    /\ href = ""
    /\ dom = <<>>
    /\ options = OptionsOf(0)
    /\ pc = "idle"
    /\ messageElements = <<>>
    /\ evaluated = <<>>
    /\ elementsToProcess = <<>>
    /\ index = 0
    /\ processed = <<>>
    /\ messages = <<>>
    /\ warnings = <<>>
    /\ messagesResult = None
    /\ result = None
    /\ thrown = FALSE
    /\ NoFunctionCall
    /\ NoExport

\* saveConfig(config) up to the await in getConfig
SaveConfig ==
    /\ Len(saves) < MaxSaves
    /\ \E config \in PartialConfigs :
           saves' = Append(saves, [pc |-> "getting", config |-> config,
                                   updated |-> None, returned |-> None])
    /\ UNCHANGED <<href, dom, parserVars, functionVars, jobVars, clickVars, pageVars, storage>>

\* chrome.storage.local.get settles for the call i: getConfig returns, and
\* saveConfig goes on to the await of chrome.storage.local.set
SaveConfigGot ==
    /\ \E i \in 1..Len(saves), readFailed \in BOOLEAN :
           /\ saves[i].pc = "getting"
           /\ saves' = [saves EXCEPT ![i].pc = "setting",
                                     ![i].updated = Some(Updated(getConfig(storage, readFailed),
                                                                 saves[i].config))]
    /\ UNCHANGED <<href, dom, parserVars, functionVars, jobVars, clickVars, pageVars, storage>>

\* chrome.storage.local.set settles for the call i: saveConfig returns
SaveConfigSet ==
    /\ \E i \in 1..Len(saves), writeFailed \in BOOLEAN :
           /\ saves[i].pc = "setting"
           /\ IF writeFailed
              THEN /\ storage' = storage
                   /\ saves' = [saves EXCEPT ![i].pc = "returned", ![i].returned = Some(FALSE)]
              ELSE /\ storage' = saves[i].updated
                   /\ saves' = [saves EXCEPT ![i].pc = "returned", ![i].returned = Some(TRUE)]
    /\ UNCHANGED <<href, dom, parserVars, functionVars, jobVars, clickVars, pageVars>>

StoreNext ==
    \/ SaveConfig
    \/ SaveConfigGot
    \/ SaveConfigSet

StoreSpec == StoreInit /\ [][StoreNext]_vars

(***************************************************************************)
(* pdf.ts: cleanTextContent and fixCorruptedLatex, their substitutions in  *)
(* source order.  The texts of the model are ASCII: a class of the source  *)
(* is written with its ASCII members, and the bullet the source writes     *)
(* (U+2022) is written as Bullet.                                          *)
(***************************************************************************)
Bullet == "(U+2022)"

Dividers == {"-", "_", "="}

Speakers == <<"YOU", "you", "CHATGPT", "ChatGPT">>

TrigNames == <<"cos", "sin", "tan", "log", "ln", "exp", "sqrt">>

FixCorruptedLatexRules ==
    << Rule(<<LineStart, AtLeast(3, {"-"}), LineEnd>>, <<>>),
       Rule(<<Lit("\n"), AtLeast(3, {"-"}), Lit("\n")>>, <<Txt("\n")>>),
       Rule(<<Lit("\\$")>>, <<Txt("$")>>),
       Rule(<<Lit("|"), Alt(BarCommands)>>, <<Txt("\\"), Grp(1)>>),
       Rule(<<Lit("\\langle"), WsStar>>, <<Txt("{")>>),
       Rule(<<WsStar, Lit("\\rangle")>>, <<Txt("}")>>),
       Rule(<<Lit("\\backslash"), WsStar>>, <<Txt("\\")>>),
       Rule(<<Lit("\\f"), WsStar, Lit("r"), WsStar, Lit("a"), WsStar, Lit("c")>>,
            <<Txt("\\frac")>>),
       Rule(<<Lit("\\s"), WsStar, Lit("q"), WsStar, Lit("r"), WsStar, Lit("t")>>,
            <<Txt("\\sqrt")>>),
       Rule(<<Lit("\\t"), WsStar, Lit("e"), WsStar, Lit("x"), WsStar, Lit("t")>>,
            <<Txt("\\text")>>),
       Rule(<<Lit("\\{operatorname{"), Alt(OperatorNames), Lit("}}")>>, <<Txt("\\"), Grp(1)>>),
       Rule(<<Lit("{\\operatorname{"), Alt(OperatorNames), Lit("}")>>,
            <<Txt("\\"), Grp(1), Txt("{")>>),
       Rule(<<Lit("\\operatorname{"), Alt(OperatorNames), Lit("}")>>, <<Txt("\\"), Grp(1)>>),
       Rule(<<Lit("\\left\\{frac")>>, <<Txt("\\left(\\frac")>>),
       Rule(<<Lit("\\left{frac")>>, <<Txt("\\left(\\frac")>>),
       Rule(<<Lit("\\right}")>>, <<Txt("\\right)")>>),
       Rule(<<Lit("}right)")>>, <<Txt("\\right)")>>),
       Rule(<<Lit("(right)")>>, <<Txt("\\right)")>>),
       Rule(<<Lit("right\\^"), OneOf(Digits)>>, <<Txt("\\right)^"), Grp(1)>>),
       Rule(<<Lit("}right^"), OneOf(Digits)>>, <<Txt("\\right)^"), Grp(1)>>),
       Rule(<<Lit("\\frac("), NotPlus({")"}), Lit(")("), NotPlus({")"}), Lit(")")>>, FracOf12),
       Rule(<<Lit("\\{frac{"), NotPlus({"}"}), Lit("}{"), NotPlus({"}"}), Lit("}}")>>, FracOf12),
       Rule(<<Lit("{frac{"), NotPlus({"}"}), Lit("}{"), NotPlus({"}"}), Lit("}")>>, FracOf12),
       Rule(<<Lit("\\mathrm{"), OneOf(Letters), Lit("}")>>, <<Grp(1)>>),
       Rule(<<Lit("\\^")>>, <<Txt("^")>>),
       Rule(<<Lit("{\\wedge}")>>, <<Txt("^")>>),
       Rule(<<Lit("\\wedge")>>, <<Txt("^")>>),
       Rule(<<Lit("\\text"), WsStar, Lit("{")>>, <<Txt("\\text{")>>),
       Rule(<<Lit("{text{"), NotStar({"}"}), Lit("}")>>, <<Txt("\\text{"), Grp(1), Txt("}")>>),
       Rule(<<Lit("\\dfrac")>>, <<Txt("\\frac")>>),
       Rule(<<Lit("\\quad"), WsStar>>, <<Txt(" ")>>),
       Rule(<<Lit("\\qquad"), WsStar>>, <<Txt("  ")>>),
       Rule(<<Lit("\\left"), WsStar, Lit("(")>>, <<Txt("\\left(")>>),
       Rule(<<Lit("\\right"), WsStar, Lit(")")>>, <<Txt("\\right)")>>),
       Rule(<<Lit("\\Rightarrow"), WsStar>>, <<Txt(" \\Rightarrow ")>>),
       Rule(<<Lit("\\underline{"), NotPlus({"}"}), Lit("}")>>, <<Grp(1)>>),
       Rule(<<Lit("\\boldsymbol{"), NotPlus({"}"}), Lit("}")>>, <<Grp(1)>>),
       Rule(<<Lit("\\"), WsPlus, Alt(TrigNames)>>, <<Txt("\\"), Grp(1)>>),
       Rule(<<Lit("\\\\")>>, <<Txt(" ")>>) >>

fixCorruptedLatex(s) == ApplyRules(s, FixCorruptedLatexRules)

\* `${placeholder}${index}___`
PlaceholderOf(n) == "___LATEX_PLACEHOLDER_" \o Decimal(n) \o "___"

\* cleaned.replace(/pat/g, (match) => { latexBlocks.push(match); return
\* the placeholder of its index }) from position i on: the text, and
\* latexBlocks after it
RECURSIVE PreserveFrom(_, _, _, _)
PreserveJoin(before, rest) == [text |-> before \o rest.text, blocks |-> rest.blocks]
PreserveAfter(s, pat, i, blocks, m) ==
    PreserveJoin(SubSeq(s, i, m.at - 1) \o PlaceholderOf(Len(blocks)),
                 PreserveFrom(s, pat, m.next, Append(blocks, SubSeq(s, m.at, m.next - 1))))
PreserveFrom(s, pat, i, blocks) ==
    IF MatchStarts(s, pat, i) = {} THEN [text |-> SubSeq(s, i, Len(s)), blocks |-> blocks]
    ELSE PreserveAfter(s, pat, i, blocks,
                       MatchFrom(s, pat, 1, Min(MatchStarts(s, pat, i)), <<>>)
                           @@ [at |-> Min(MatchStarts(s, pat, i))])

DisplaySpan == <<Lit("$$"), LazyUntil("$$")>>
InlineSpan == <<Lit("$"), NotPlus({"$"}), Lit("$")>>

\* the two preserving passes: the $$...$$ blocks, then the $...$ blocks of
\* what the first pass left
PreserveInline(p) == PreserveFrom(p.text, InlineSpan, 1, p.blocks)
Preserve(fixed) == PreserveInline(PreserveFrom(fixed, DisplaySpan, 1, <<>>))

\* the substitutions between the preserving passes and the trimming of the
\* lines (the patterns of the characters U+00B7, U+00B1 and U+03C9 match
\* no ASCII text: their classes are empty here)
CleanTextRules ==
    << Rule(<<OneOf(LowerCase), OneOf(UpperCase)>>, <<Grp(1), Txt(" "), Grp(2)>>),
       Rule(<<CapitalsThenWord>>, <<Grp(1), Txt(" "), Grp(2)>>),
       Rule(<<OneOf({})>>, <<Txt(Bullet)>>),
       Rule(<<Lit("$\\cdot$")>>, <<Txt(Bullet)>>),
       Rule(<<LineStart, WsStar, OneOf({"@"}), WsStar>>, <<>>),
       Rule(<<WsPlus, OneOf({}), WsPlus>>, <<Txt(" ")>>),
       Rule(<<LineStart, InPlus(Digits), WsPlus, Alt(Speakers), WsStarLineEnd>>, <<>>),
       Rule(<<LineStart, WsStar, AtLeast(3, Dividers), WsStarLineEnd>>, <<>>),
       Rule(<<Lit("\n"), AtLeast(3, Dividers), Lit("\n")>>, <<Txt("\n")>>),
       Rule(<<AtLeast(2, {" ", "\t"})>>, <<Txt(" ")>>),
       Rule(<<AtLeast(3, {"\n"})>>, <<Txt("\n\n")>>) >>

\* s.split('\n')
RECURSIVE SplitLines(_)
SplitLines(s) ==
    IF FirstAt(s, "\n", 1) = 0 THEN <<s>>
    ELSE <<SubSeq(s, 1, FirstAt(s, "\n", 1) - 1)>>
             \o SplitLines(SubSeq(s, FirstAt(s, "\n", 1) + 1, Len(s)))

\* .split('\n').map(line => line.trim()).filter(line => line !== '---' &&
\* line !== '___' && line !== '===').join('\n')
TrimLines(s) ==
    Join(SelectSeq([k \in 1..Len(SplitLines(s)) |-> Trim(SplitLines(s)[k])],
                   LAMBDA line : line \notin {"---", "___", "==="}),
         "\n")

\* what String.prototype.replace makes of the replacement string rep from
\* position i on: $$ is one $, $& the matched text, $` the text before the
\* match, $' the text after it; any other $ stands for itself
RECURSIVE GetSubstitution(_, _, _, _, _)
GetSubstitution(rep, i, matched, before, after) ==
    IF i > Len(rep) THEN ""
    ELSE IF Ch(rep, i) # "$" THEN Ch(rep, i) \o GetSubstitution(rep, i + 1, matched, before, after)
    ELSE IF Ch(rep, i + 1) = "$" THEN "$" \o GetSubstitution(rep, i + 2, matched, before, after)
    ELSE IF Ch(rep, i + 1) = "&" THEN matched \o GetSubstitution(rep, i + 2, matched, before, after)
    ELSE IF Ch(rep, i + 1) = "`" THEN before \o GetSubstitution(rep, i + 2, matched, before, after)
    ELSE IF Ch(rep, i + 1) = "'" THEN after \o GetSubstitution(rep, i + 2, matched, before, after)
    ELSE "$" \o GetSubstitution(rep, i + 1, matched, before, after)

\* s.replace(p, rep) of two strings: the first occurrence of p is replaced
ReplaceFirstAt(s, p, rep, at) ==
    SubSeq(s, 1, at - 1)
        \o GetSubstitution(rep, 1, p, SubSeq(s, 1, at - 1), SubSeq(s, at + Len(p), Len(s)))
        \o SubSeq(s, at + Len(p), Len(s))
ReplaceFirst(s, p, rep) ==
    IF FirstAt(s, p, 1) = 0 THEN s ELSE ReplaceFirstAt(s, p, rep, FirstAt(s, p, 1))

\* latexBlocks.forEach((block, index) => { cleaned = cleaned.replace(
\* `${placeholder}${index}___`, block) }) from the block of index k on
RECURSIVE RestoreBlocks(_, _, _)
RestoreBlocks(cleaned, blocks, k) ==
    IF k >= Len(blocks) THEN cleaned
    ELSE RestoreBlocks(ReplaceFirst(cleaned, PlaceholderOf(k), blocks[k + 1]), blocks, k + 1)

\* cleanTextContent after the preserving passes
CleanPreserved(p) == Trim(RestoreBlocks(TrimLines(ApplyRules(p.text, CleanTextRules)), p.blocks, 0))

cleanTextContent(s) == CleanPreserved(Preserve(fixCorruptedLatex(s)))

\* latexBlocks of cleanTextContent(s)
latexBlocks(s) == Preserve(fixCorruptedLatex(s)).blocks

(***************************************************************************)
(* cleanTextContent called on its own, on the texts made of a few pieces.  *)
(***************************************************************************)
\* the most pieces of a text given to cleanTextContent
MaxCleanPieces == 3

CleanTexts ==
    TextsOf({"$$x$$", "$y$", "$", "aB", "ABc", " ", "\n", "---", "@", "\\$", "\\quad"},
            MaxCleanPieces)

CleanInit ==
    /\ text \in CleanTexts
    /\ options = OptionsOf(0)
    /\ dom = <<>>
    /\ library = "renders"
    /\ returned = None
    /\ ExtractionIdle
    /\ NoContentScript
    /\ NoExport

\* fixCorruptedLatex(text)
FixCorruptedLatexCall ==
    /\ returned = None
    /\ returned' = Returned("fixCorruptedLatex", fixCorruptedLatex(text))
    /\ UNCHANGED <<href, dom, options, pc, messageElements, evaluated, elementsToProcess, index, processed,
                   messages, warnings, messagesResult, result, thrown, text, library, jobVars, contentVars>>

\* cleanTextContent(text)
CleanTextContentCall ==
    /\ returned = None
    /\ returned' = Returned("cleanTextContent", cleanTextContent(text))
    /\ UNCHANGED <<href, dom, options, pc, messageElements, evaluated, elementsToProcess, index, processed,
                   messages, warnings, messagesResult, result, thrown, text, library, jobVars, contentVars>>

CleanNext ==
    \/ FixCorruptedLatexCall
    \/ CleanTextContentCall

CleanSpec == CleanInit /\ [][CleanNext]_vars

(***************************************************************************)
(* Properties.  Each is stated over the state of one call of               *)
(* extractConversation; Located says that the call has run                 *)
(* findAllMessageElements.                                                 *)
(***************************************************************************)
Located == evaluated # <<>>

\* the strategies that yield at least one element on the document h
Yielding(h) == {k \in 1..5 : Len(StrategyYield(h, k)) > 0}

\* the strategies 1..k in order
UpTo(k) == [i \in 1..k |-> i]

\* the located elements are the yield of the first of the strategies in
\* yielding, which are those that yield an element, and no later one ran
FirstWins(yielding) ==
    /\ yielding # {} =>
          /\ messageElements = StrategyYield(dom, Min(yielding))
          /\ evaluated = UpTo(Min(yielding))
    /\ yielding = {} => evaluated = UpTo(5)
    /\ messageElements = <<>> <=> yielding = {}

(* C1: findAllMessageElements returns the yield of the lowest-numbered of  *)
(* its five strategies that yields at least one element, runs no strategy  *)
(* after that one, and returns no element only when every strategy yields  *)
(* none.                                                                   *)
C1_FirstYieldingStrategyWins == Located => FirstWins(Yielding(dom))

\* the positional strategy won on a page where the last strategy, which was
\* not run, would have found elements too
C1_Witness ==
    /\ Located
    /\ Min(Yielding(dom) \cup {5}) = 4
    /\ 5 \in Yielding(dom)
    /\ evaluated = UpTo(4)
    /\ messageElements = Strategy4(dom)

\* parsing the element the loop is at throws
NextParseThrows ==
    /\ pc = "loop"
    /\ index < Len(elementsToProcess)
    /\ \E bgColor \in BackgroundColors :
          parseMessageElement(dom, elementsToProcess[index + 1], index, options, bgColor).threw

(* C2: when parsing the element at index i throws, extractMessages appends *)
(* exactly one warning that names i, adds no message for i, lets no        *)
(* exception escape and goes on to the next element; the elements are      *)
(* processed in order and all of them are processed when the loop ends.    *)
C2_ParseErrorIsRecovered ==
    /\ [](/\ ~thrown
          /\ processed = SubSeq(elementsToProcess, 1, index)
          /\ (messagesResult # None /\ messageElements # <<>>) => processed = elementsToProcess)
    /\ [][NextParseThrows =>
             /\ warnings' = Append(warnings, ParseWarning(index, ParseErrorText))
             /\ messages' = messages
             /\ index' = index + 1
             /\ pc' = "loop"
             /\ ~thrown']_vars

\* the first element threw, the second became a message, and the call
\* returned a success that carries the warning
C2_Witness ==
    /\ result # None
    /\ result[1].success
    /\ Len(processed) = 2
    /\ result[1].warnings = <<ParseWarning(0, ParseErrorText)>>
    /\ Len(messages) = 1
    /\ messages[1].index = 1

\* what extractMessages and extractConversation returned is a failure with
\* an error text and no data
IsFailure(r) == ~r.success /\ r.error # None /\ r.error[1] # "" /\ r.data = None

\* the <main> of the page has text that is not blank
MainHasText == MainElement(dom) # Null /\ Trim(TextContent(dom, MainElement(dom))) # ""

\* the one message of the fallback of extractMessages
IsFallbackOf(msgs) ==
    /\ Len(msgs) = 1
    /\ msgs[1].id = "fallback-0"
    /\ msgs[1].index = 0
    /\ msgs[1].role = "assistant"
    /\ Len(msgs[1].content) = 1
    /\ msgs[1].content[1].type = "text"
    /\ msgs[1].content[1].content = Trim(TextContent(dom, MainElement(dom)))
    /\ msgs[1].rawHtml = InnerHTML(dom, MainElement(dom))

(* C3, as stated: whenever no strategy locates a message element,          *)
(* extractMessages and extractConversation return success=false with an    *)
(* error text and no data, and never throw.                                *)
C3_NoElementIsFatal ==
    /\ ~thrown
    /\ (messagesResult # None /\ messageElements = <<>>) => IsFailure(messagesResult[1])
    /\ (result # None /\ Located /\ messageElements = <<>>) => IsFailure(result[1])

(* C3, amended: when no strategy locates a message element and the page    *)
(* has a <main> whose text is not blank, extractMessages and               *)
(* extractConversation return success=true with the single message         *)
(* 'fallback-0' (role assistant, the trimmed text of <main>) and the       *)
(* warning 'Using fallback extraction - structure may not be ideal'; when  *)
(* there is no <main> or its text is blank they return success=false with  *)
(* the error 'No messages found in conversation. Please make sure the page *)
(* is fully loaded.' and no data; they never throw.                        *)
C3_NoElementFallsBackToMain ==
    /\ ~thrown
    /\ (messagesResult # None /\ messageElements = <<>>) =>
          /\ messagesResult[1].warnings =
                IF MainElement(dom) # Null
                THEN <<"Using fallback extraction - structure may not be ideal">> ELSE <<>>
          /\ IF MainHasText
             THEN /\ messagesResult[1].success
                  /\ messagesResult[1].error = None
                  /\ IsFallbackOf(messagesResult[1].data[1])
             ELSE /\ IsFailure(messagesResult[1])
                  /\ messagesResult[1].error[1] =
                        "No messages found in conversation. Please make sure the page is fully loaded."
    /\ (result # None /\ Located /\ messageElements = <<>>) =>
          /\ result[1].warnings = messagesResult[1].warnings
          /\ IF MainHasText
             THEN /\ result[1].success
                  /\ IsFallbackOf(result[1].data[1].messages)
             ELSE /\ IsFailure(result[1])
                  /\ result[1].error = messagesResult[1].error

\* no strategy found an element and the call returned the fallback message
C3_Witness ==
    /\ result # None
    /\ Located
    /\ messageElements = <<>>
    /\ result[1].success
    /\ result[1].data[1].messageCount = 1
    /\ result[1].data[1].messages[1].id = "fallback-0"

\* the element at position i of processed threw when it was parsed
ThrewAt(i) ==
    \E bgColor \in BackgroundColors :
        parseMessageElement(dom, processed[i], i - 1, options, bgColor).threw

(* C4, as stated: extractConversation returns success=false only when no   *)
(* message element was found or when no message was parsed.                *)
C4_FailsOnlyWithoutMessages ==
    (result # None /\ ~result[1].success) =>
        \/ Yielding(dom) = {}
        \/ Located /\ messageElements # <<>> /\ messages = <<>>

(* C4, amended: extractConversation returns success=false in three         *)
(* situations only: the address is not that of a conversation page (error  *)
(* 'Not on a ChatGPT conversation page', nothing is searched), no message  *)
(* element was found (error 'No messages found in conversation. ...'), or  *)
(* no message was parsed (error 'Failed to parse any messages'); the error *)
(* of an element whose parsing threw is a warning of the result, which is  *)
(* a success when another element gave a message.                          *)
C4_FailureCauses ==
    result # None =>
        /\ ~result[1].success =>
              \/ /\ ~isConversationPage(href)
                 /\ ~Located
                 /\ result[1].error = Some("Not on a ChatGPT conversation page")
              \/ /\ Located
                 /\ messageElements = <<>>
                 /\ result[1].error =
                       Some("No messages found in conversation. Please make sure the page is fully loaded.")
              \/ /\ Located
                 /\ messageElements # <<>>
                 /\ messages = <<>>
                 /\ result[1].error = Some("Failed to parse any messages")
        /\ Located =>
              /\ \A i \in 1..Len(processed) :
                    ThrewAt(i) => InSeq(result[1].warnings, ParseWarning(i - 1, ParseErrorText))
              /\ messages # <<>> => result[1].success

\* the call failed on an address that is no conversation page although the
\* page holds message elements
C4_Witness ==
    /\ result # None
    /\ ~result[1].success
    /\ result[1].error = Some("Not on a ChatGPT conversation page")
    /\ Yielding(dom) # {}

(* C5: every result of extractConversation with success=true carries a     *)
(* Conversation with at least one message, an id and a url that are not    *)
(* empty, and a messageCount equal to the number of its messages; every    *)
(* result with success=false carries no Conversation and an error text.    *)
C5_ResultShape ==
    result # None =>
        IF result[1].success
        THEN /\ result[1].data # None
             /\ Len(result[1].data[1].messages) >= 1
             /\ result[1].data[1].id # ""
             /\ result[1].data[1].url # ""
             /\ result[1].data[1].messageCount = Len(result[1].data[1].messages)
        ELSE /\ result[1].data = None
             /\ result[1].error # None
             /\ result[1].error[1] # ""

\* a success with one message, of a page with two elements one of which
\* gave none
C5_Witness ==
    /\ result # None
    /\ result[1].success
    /\ result[1].data[1].id = "7f-x"
    /\ result[1].data[1].messageCount = 1
    /\ Len(processed) = 2

\* the element that the message msg was parsed from
ElementOf(msg) == processed[msg.index + 1]

\* getMessageRole gives unknown for the element e
RoleIsUnknown(e) == \A bgColor \in BackgroundColors : getMessageRole(dom, e, bgColor) = "unknown"

(* C6: a message parsed from an element whose role resolves to unknown has *)
(* the role 'user' when its zero-based index among the processed elements  *)
(* is even and 'assistant' when it is odd; every message of the loop and   *)
(* of a successful result has a role in {user, assistant}.                 *)
C6_UnknownRoleByParity ==
    /\ \A k \in 1..Len(messages) :
          /\ messages[k].role \in {"user", "assistant"}
          /\ RoleIsUnknown(ElementOf(messages[k])) =>
                messages[k].role = (IF messages[k].index % 2 = 0 THEN "user" ELSE "assistant")
    /\ (result # None /\ result[1].success) =>
          \A k \in 1..Len(result[1].data[1].messages) :
              result[1].data[1].messages[k].role \in {"user", "assistant"}

\* two elements of unknown role gave a user message and then an assistant
\* message
C6_Witness ==
    /\ result # None
    /\ Len(messages) = 2
    /\ RoleIsUnknown(processed[1])
    /\ RoleIsUnknown(processed[2])
    /\ messages[1].role = "user"
    /\ messages[2].role = "assistant"

\* the element e carries its own role attribute with the value user or
\* assistant
HasOwnRole(e) ==
    /\ IsElement(dom, e)
    /\ HasAttribute(dom, e, "data-message-author-role")
    /\ GetAttribute(dom, e, "data-message-author-role") \in {"user", "assistant"}

\* getMessageRole gives every element of els that has its own role that role
OwnRoleWinsIn(els) ==
    \A i \in 1..Len(els) :
        HasOwnRole(els[i]) =>
            \A bgColor \in BackgroundColors :
                getMessageRole(dom, els[i], bgColor) = GetAttribute(dom, els[i], "data-message-author-role")

(* C7: for every element whose own data-message-author-role attribute is   *)
(* 'user' or 'assistant', getMessageRole returns that value whatever the   *)
(* role attributes of its descendants, its class name, its markup and its  *)
(* computed style are; the message parsed from such an element has that    *)
(* role.                                                                   *)
C7_OwnRoleAttributeWins ==
    /\ OwnRoleWinsIn(DocumentElements(dom))
    /\ \A k \in 1..Len(messages) :
          HasOwnRole(ElementOf(messages[k])) =>
              messages[k].role = GetAttribute(dom, ElementOf(messages[k]), "data-message-author-role")

\* a message has the role assistant of its element's own attribute although
\* the element's class says human and its first descendant with a role
\* attribute says user
C7_Witness ==
    \E k \in 1..Len(messages) :
        /\ AttrOrEmpty(dom, ElementOf(messages[k]), "data-message-author-role") = "assistant"
        /\ ClassName(dom, ElementOf(messages[k])) = "human"
        /\ NestedRoleElement(dom, ElementOf(messages[k])) # Null
        /\ AttrOrEmpty(dom, NestedRoleElement(dom, ElementOf(messages[k])), "data-message-author-role") = "user"
        /\ messages[k].role = "assistant"

\* the page holds one message element more than the maxMessages of the call
OneOverCap == Located /\ options.maxMessages > 0 /\ Len(messageElements) = options.maxMessages + 1

(* C8, as stated (with the cap and the page scaled: a cap of N and N + 1   *)
(* message elements for 1001 and 1000): extraction returns success=false   *)
(* and no Conversation.                                                    *)
C8_OverCapIsHardFailure ==
    (result # None /\ OneOverCap) => (~result[1].success /\ result[1].data = None)

(* C8, amended: on a page with one message element more than maxMessages   *)
(* = N > 0, extraction does not fail for the count: it warns               *)
(* 'Conversation has N+1 messages, limiting to N', parses the first N      *)
(* elements and returns success=true with the at most N messages they      *)
(* gave; it returns success=false only when none of them gave a message,   *)
(* with the error 'Failed to parse any messages'.                          *)
C8_OverCapIsSoft ==
    (result # None /\ OneOverCap) =>
        /\ result[1].warnings[1] =
              "Conversation has " \o Decimal(options.maxMessages + 1)
                  \o " messages, limiting to " \o Decimal(options.maxMessages)
        /\ Len(processed) = options.maxMessages
        /\ result[1].success <=> messages # <<>>
        /\ result[1].success =>
              /\ result[1].data[1].messages = messages
              /\ result[1].data[1].messageCount <= options.maxMessages
        /\ ~result[1].success => result[1].error = Some("Failed to parse any messages")

\* a successful result that holds the messages of the first elements of a
\* page with one element too many
C8_Witness ==
    /\ result # None
    /\ OneOverCap
    /\ result[1].success
    /\ result[1].data[1].messageCount = options.maxMessages

\* the warnings of the message limit among the warnings warns
LimitWarnings(warns) == SelectSeq(warns, LAMBDA w : StartsWith(w, "Conversation has "))

\* the elements els in document order
InDocumentOrder(els) == SortedSeq({els[i] : i \in 1..Len(els)})

(* C9, as stated: with maxMessages = N > 0 and more than N located         *)
(* elements, extractMessages appends exactly one limit warning, processes  *)
(* exactly the first N located elements in document order, and returns a   *)
(* success when one of them gave a message; with maxMessages = 0 it        *)
(* processes every located element and appends no limit warning.           *)
C9_CapKeepsFirstInDocumentOrder ==
    (messagesResult # None /\ messageElements # <<>>) =>
        /\ (options.maxMessages > 0 /\ Len(messageElements) > options.maxMessages) =>
              /\ Len(LimitWarnings(messagesResult[1].warnings)) = 1
              /\ processed = SubSeq(InDocumentOrder(messageElements), 1, options.maxMessages)
              /\ messages # <<>> => messagesResult[1].success
        /\ options.maxMessages = 0 =>
              /\ processed = messageElements
              /\ LimitWarnings(messagesResult[1].warnings) = <<>>

(* C9, amended: with maxMessages = N > 0 and more than N located elements, *)
(* extractMessages appends exactly one limit warning, processes exactly    *)
(* the first N elements of the list findAllMessageElements returned, in    *)
(* the order of that list, and returns a success when one of them gave a   *)
(* message; with maxMessages = 0 it processes every located element and    *)
(* appends no limit warning.  The list is in document order when one of    *)
(* the first four strategies made it; the last strategy lists the          *)
(* grandparents in the order of the content elements they were reached     *)
(* from.                                                                   *)
C9_CapKeepsFirstLocated ==
    (messagesResult # None /\ messageElements # <<>>) =>
        /\ (options.maxMessages > 0 /\ Len(messageElements) > options.maxMessages) =>
              /\ Len(LimitWarnings(messagesResult[1].warnings)) = 1
              /\ processed = SubSeq(messageElements, 1, options.maxMessages)
              /\ messages # <<>> => messagesResult[1].success
        /\ options.maxMessages = 0 =>
              /\ processed = messageElements
              /\ LimitWarnings(messagesResult[1].warnings) = <<>>
        /\ evaluated # UpTo(5) => messageElements = InDocumentOrder(messageElements)

\* the cap cut a list that the last strategy made out of document order,
\* and the call returned a success
C9_Witness ==
    /\ messagesResult # None
    /\ messagesResult[1].success
    /\ options.maxMessages > 0
    /\ Len(messageElements) > options.maxMessages
    /\ messageElements # InDocumentOrder(messageElements)
    /\ processed = SubSeq(messageElements, 1, options.maxMessages)

(* C10: extraction never changes the live page: the document is the same   *)
(* after every step of extractConversation, parseContentBlocks included;   *)
(* the stripping of struck text, the replacement of math and of <br> and   *)
(* the appended newlines act on a clone.                                   *)
C10_LivePageUnchanged == [][dom' = dom]_vars

\* the call returned a message whose text shows the replacement of math
\* and of a line break, and the page still holds the struck element, the
\* rendered math and the <br>
C10_Witness ==
    /\ result # None
    /\ \E k \in 1..Len(messages) :
          /\ Len(messages[k].content) = 2
          /\ messages[k].content[1].hasLatex
          /\ messages[k].content[2].content = "oldnew\nend"
    /\ \E n \in LiveNodes(dom) : IsElement(dom, n) /\ dom[n].tag = "del"
    /\ \E n \in LiveNodes(dom) : IsElement(dom, n) /\ dom[n].tag = "br"
    /\ \E n \in LiveNodes(dom) : IsElement(dom, n) /\ ClassListContains(dom, n, "katex")

(***************************************************************************)
(* Properties of parseContentBlocks and parseTableBlock called on their    *)
(* own (SegmentSpec).  The document is unchanged by the call, so dom is    *)
(* the document the function was called on.                                *)
(***************************************************************************)
\* parseContentBlocks was called, and what became of the call
Segmented == returned # None /\ returned[1].of = "parseContentBlocks"
Segments == returned[1].value

\* the element carries a thinking indicator: the attribute or the class
ThinkingIndicator(h, n) == HasAttribute(h, n, "data-thinking") \/ Includes(AttrOrEmpty(h, n, "class"), "thinking")

\* the first rule of the priority that matches the child
RuleOf(h, n, opts) ==
    IF h[n].tag = "pre" /\ opts.parseCodeBlocks THEN "code"
    ELSE IF h[n].tag = "table" /\ opts.parseTables THEN "table"
    ELSE IF opts.includeThinkingBlocks /\ ThinkingIndicator(h, n) THEN "thinking"
    ELSE IF h[n].tag \in {"ol", "ul"} THEN "list"
    ELSE "text"

\* the block is the one the rule makes of the child
Fits(block, h, n, rule) ==
    CASE rule = "code"     -> block.type = "code" /\ Includes(TextContent(h, n), block.content)
      [] rule = "table"    -> block.type = "table"
      [] rule = "thinking" -> block.type = "thinking" /\ block.content = Trim(TextContent(h, n))
      [] rule = "list"     -> block.type = "text" /\ StartsWith(block.content, ListPrefix(h[n].tag = "ol", 0))
      [] rule = "text"     -> block.type = "text" /\ Trim(block.content) = Trim(TextContent(h, n))

\* the child must give a block under the rule, or may give none
MustContribute(h, n, rule) ==
    rule \in {"table", "thinking"} \/ (rule = "text" /\ Trim(TextContent(h, n)) # "")
MustBeSilent(h, n, rule) == rule = "text" /\ Trim(TextContent(h, n)) = ""

\* the blocks are those of some of the children, one each, in the order of
\* the children, each made by the first rule that matches its child
ClassifiedInOrder(h, kids, opts, blocks) ==
    \E sel \in SUBSET (1..Len(kids)) :
        /\ Cardinality(sel) = Len(blocks)
        /\ \A i \in 1..Len(kids) :
              /\ MustContribute(h, kids[i], RuleOf(h, kids[i], opts)) => i \in sel
              /\ MustBeSilent(h, kids[i], RuleOf(h, kids[i], opts)) => i \notin sel
        /\ \A k \in 1..Len(blocks) :
              Fits(blocks[k], h, kids[SortedSeq(sel)[k]], RuleOf(h, kids[SortedSeq(sel)[k]], opts))

\* the one text block over the whole trimmed text of the content element
WholeTextBlock(h, opts, blocks) ==
    /\ Len(blocks) = 1
    /\ blocks[1].type = "text"
    /\ blocks[1].content = Trim(TextContent(h, ContentElement))

\* no child gave a block and the whole text stands in for them
FellBack(h, kids, opts, blocks) ==
    /\ \A i \in 1..Len(kids) : ~MustContribute(h, kids[i], RuleOf(h, kids[i], opts))
    /\ WholeTextBlock(h, opts, blocks)

PagesOf(K) ==
    {ContentPageOf(Concat([k \in 1..Len(kids) |-> KidOutline(kids[k], 3)])) :
        kids \in UNION {[1..n -> K] : n \in 0..MaxKids}}

\* the kinds of children that give no block under the options: a blank
\* paragraph, a list without items, a direct text node, and a <pre> whose
\* code element is empty when code blocks are parsed
SilentKids(opts) == {"blank", "noitem", "note"} \cup (IF opts.parseCodeBlocks THEN {"hollow"} ELSE {})

(* C12: parseContentBlocks returns exactly one text block over the         *)
(* element's trimmed text when the element has no child elements and its   *)
(* text is not blank; when the pass over the children gives no block it    *)
(* returns one text block over the element's whole trimmed text; and it    *)
(* returns no block only if the element's text is blank.                   *)
C12_WholeTextWhenNoBlock ==
    (Segmented /\ ~Segments.threw) =>
        /\ (ChildElements(dom, ContentElement) = <<>> /\ Trim(TextContent(dom, ContentElement)) # "")
              => WholeTextBlock(dom, options, Segments.blocks)
        /\ (/\ Trim(TextContent(dom, ContentElement)) # ""
            /\ \A n \in NodesIn(ChildElements(dom, ContentElement)) : dom[n].tag \in {"p", "ul", "pre"}
            /\ dom \in PagesOf(SilentKids(options)))
              => WholeTextBlock(dom, options, Segments.blocks)
        /\ Segments.blocks = <<>> => Trim(TextContent(dom, ContentElement)) = ""

\* the content element held a <pre> with an empty code element and a list
\* without items, neither gave a block, and the call returned the text of
\* both as one text block
C12_Witness ==
    /\ Segmented
    /\ ~Segments.threw
    /\ options.parseCodeBlocks
    /\ Len(ChildElements(dom, ContentElement)) = 2
    /\ dom[ChildElements(dom, ContentElement)[1]].tag = "pre"
    /\ dom[ChildElements(dom, ContentElement)[2]].tag = "ul"
    /\ Segments.blocks = <<createTextBlock("tz", options)>>

\* parseTableBlock was called, and the table it returned
Tabulated == returned # None /\ returned[1].of = "parseTableBlock"
TableBlock == returned[1].value

\* the grids with a <thead> and a <tbody>
FullGrids == {g \in Grids : g.head /\ g.body}

(* C13: for a table with a <thead> of h header cells and a <tbody> of r    *)
(* rows of c <td> cells each (h, r, c >= 1), parseTableBlock returns h     *)
(* headers and r rows of c cells each, in document order.                  *)
C13_GridOfHeadAndBody ==
    Tabulated =>
        \A g \in {f \in FullGrids : Len(GridOutline(3, f)) + ContentElement = Len(dom)} :
            dom = ContentPageOf(GridOutline(3, g)) =>
                /\ TableBlock.type = "table"
                /\ TableBlock.headers = [j \in 1..g.h |-> HeaderText(j)]
                /\ TableBlock.rows = [i \in 1..g.r |-> [j \in 1..g.c |-> CellText(i, j)]]

\* a table of two <td> headers in a <thead> and two rows in a <tbody>,
\* each a <th> row header and one <td> cell, was parsed
C13_Witness ==
    /\ Tabulated
    /\ dom = ContentPageOf(GridOutline(3, [head |-> TRUE, body |-> TRUE, tag |-> "td", rowHeader |-> TRUE,
                                           h |-> 2, r |-> 2, c |-> 1]))
    /\ Len(TableBlock.headers) = 2
    /\ Len(TableBlock.rows) = 2
    /\ Len(TableBlock.rows[1]) = 1

(***************************************************************************)
(* Properties of createTextBlock called on its own (TextBlockSpec).        *)
(***************************************************************************)
\* createTextBlock was called, and the block it returned
TextBlockMade == returned # None /\ returned[1].of = "createTextBlock"
MadeBlock == returned[1].value

\* the positions of the character c in s, in increasing order
PositionsOf(s, c) == SortedSeq({i \in 1..Len(s) : Ch(s, i) = c})

\* the only notation of s is one inline span: s has two '$', not adjacent
OneInlineSpan(s) ==
    /\ Len(PositionsOf(s, "$")) = 2
    /\ PositionsOf(s, "$")[2] > PositionsOf(s, "$")[1] + 1

\* the only notation of s is one block span: s has two pairs of adjacent
\* '$', with text between the pairs
OneBlockSpan(s) ==
    /\ Len(PositionsOf(s, "$")) = 4
    /\ PositionsOf(s, "$")[2] = PositionsOf(s, "$")[1] + 1
    /\ PositionsOf(s, "$")[4] = PositionsOf(s, "$")[3] + 1
    /\ PositionsOf(s, "$")[3] > PositionsOf(s, "$")[2] + 1

\* the expression of the span of s between its i-th and j-th '$', whose
\* first '$' is the k-th
SpanExpression(at, s, i, j, k, isBlock) ==
    [raw |-> SubSeq(s, at[i] + 1, at[j] - 1), isBlock |-> isBlock, position |-> at[k] - 1]

(* C14: with parseLaTeX on, createTextBlock on a text whose only notation  *)
(* is one inline span $E$ returns hasLatex = true and exactly one          *)
(* expression, with raw = E, isBlock = false and position = the offset of  *)
(* the opening '$'; with parseLaTeX off it returns hasLatex = false and no *)
(* expression, whatever the text.                                          *)
C14_OneInlineSpanOneExpression ==
    TextBlockMade =>
        /\ MadeBlock.type = "text"
        /\ MadeBlock.content = text
        /\ (options.parseLaTeX /\ OneInlineSpan(text)) =>
              /\ MadeBlock.hasLatex
              /\ MadeBlock.latexExpressions = <<SpanExpression(PositionsOf(text, "$"), text, 1, 2, 1, FALSE)>>
        /\ ~options.parseLaTeX => (~MadeBlock.hasLatex /\ MadeBlock.latexExpressions = <<>>)

\* the text " $x^2$" was scanned: one expression x^2 at offset 1
C14_Witness ==
    /\ TextBlockMade
    /\ options.parseLaTeX
    /\ text = " $x^2$"
    /\ MadeBlock.hasLatex
    /\ MadeBlock.latexExpressions = <<[raw |-> "x^2", isBlock |-> FALSE, position |-> 1]>>

(* C15: createTextBlock records each notation span of the text as exactly  *)
(* one expression: a block span $$E$$ gives one expression with raw = E,   *)
(* isBlock = true and position = the offset of its first '$', and is not   *)
(* also recorded as an inline expression; there are as many expressions    *)
(* as spans.                                                               *)
C15_EachSpanRecordedOnce ==
    (TextBlockMade /\ options.parseLaTeX) =>
        /\ OneBlockSpan(text) =>
              MadeBlock.latexExpressions = <<SpanExpression(PositionsOf(text, "$"), text, 2, 3, 1, TRUE)>>
        /\ OneInlineSpan(text) => Len(MadeBlock.latexExpressions) = 1

(***************************************************************************)
(* Properties of the notation repair passes called on their own            *)
(* (RepairSpec).                                                           *)
(***************************************************************************)
\* the pass was called, and its outputs in the order of the calls
Repaired(name) == returned # None /\ returned[1].of = name
Outputs == returned[1].value

(* C16: each notation repair pass f (fixCorruptedLatexPatterns,            *)
(* cleanLatexContent, cleanExtractedLatex) is idempotent: f(f(x)) = f(x)   *)
(* for every string x.                                                     *)
C16_RepairIsIdempotent ==
    \A name \in {"fixCorruptedLatexPatterns", "cleanLatexContent", "cleanExtractedLatex"} :
        (Repaired(name) /\ Len(Outputs) >= 2) => Outputs[2] = Outputs[1]

\* what the k-th call of the pass was given
InputOf(k) == IF k = 1 THEN text ELSE Outputs[k - 1]

\* how many closing braces the formula lacks
Deficit(s) == CountOf(s, "{") - CountOf(s, "}")

\* the claim of C17 about one call: x is the formula, y what was returned
DeficitAppended(x, y) ==
    /\ Deficit(x) > 0 =>
          /\ Deficit(y) = 0
          /\ Len(y) >= Deficit(x)
          /\ SubSeq(y, Len(y) - Deficit(x) + 1, Len(y)) = Repeat("}", Deficit(x))
          /\ CountOf(y, "{") = CountOf(x, "{")
          /\ CountOf(y, "}") = CountOf(x, "}") + Deficit(x)
    /\ Deficit(x) <= 0 => CountOf(y, "}") >= CountOf(x, "}")

(* C17 as stated: given a formula with more '{' than '}',                  *)
(* cleanLatexContent appends exactly the deficit of '}' at the end, the    *)
(* output has equal numbers of '{' and '}' and no brace of the input is    *)
(* removed; given a formula with at least as many '}' as '{', no closing   *)
(* brace is deleted.                                                       *)
C17_DeficitAppended ==
    Repaired("cleanLatexContent") =>
        \A k \in 1..Len(Outputs) : DeficitAppended(InputOf(k), Outputs[k])

\* the amended statement about one call: x is the formula, s the formula
\* after the substitutions, y what was returned
BalancedAfterSubstitutions(x, s, y) ==
    /\ Deficit(y) <= 0
    /\ y = s \o Repeat("}", Len(y) - Len(s))
    /\ Len(y) - Len(s) = (IF Deficit(s) > 0 THEN Deficit(s) ELSE 0)
    /\ s = x => DeficitAppended(x, y)

(* C17 amended: the braces are balanced after the substitutions, on their  *)
(* result: the output is the substituted formula followed by exactly its   *)
(* deficit of '}' (nothing when it has at least as many '}' as '{'), so    *)
(* the output never has more '{' than '}' and the balancing deletes        *)
(* nothing; for a formula that no substitution rewrites, the claim holds   *)
(* as stated.  A substitution may delete or add braces before that.        *)
C17_SubstitutedThenDeficitAppended ==
    Repaired("cleanLatexContent") =>
        \A k \in 1..Len(Outputs) :
            BalancedAfterSubstitutions(InputOf(k), ApplyRules(InputOf(k), CleanLatexContentRules), Outputs[k])

\* two closing braces were appended to a formula that lacked two, and the
\* second call found nothing to do
C17_Witness ==
    /\ Repaired("cleanLatexContent")
    /\ text = "{{^"
    /\ Outputs = <<"{{^}}", "{{^}}">>

(***************************************************************************)
(* Properties of renderLatex called on its own (RenderSpec).               *)
(***************************************************************************)
\* renderLatex or one of its wrappers was called: its arguments and what
\* it gave
Rendered == returned # None /\ returned[1].of \in {"renderLatex", "renderInlineMath", "renderBlockMath"}
RenderArgs == returned[1].value.options
RenderOut == returned[1].value.out

\* s has p somewhere
Contains(s, p) == \E i \in 1..Len(s) : OccursAt(s, p, i)

\* the text between the first > and the last < of a markup of one element
InnerOf(markup) ==
    SubSeq(markup,
           Min({i \in 1..Len(markup) : Ch(markup, i) = ">"}) + 1,
           Max({i \in 1..Len(markup) : Ch(markup, i) = "<"}) - 1)

\* an error-styled span around the escaped text
ErrorSpanOf(markup, original) ==
    /\ StartsWith(markup, "<span style=\"color: #cc0000; font-family: monospace;\">")
    /\ InnerOf(markup) = escapeHtml(original)
    /\ \A c \in {"<", ">", "\""} : ~Contains(InnerOf(markup), c)
    /\ Len(InnerOf(markup)) >= Len(original)

(* C18: renderLatex without throwOnError never throws, whatever the        *)
(* formula and however the library behaves: when the strict render         *)
(* succeeds it returns its markup and no error; when only the lenient      *)
(* render succeeds it returns the lenient markup and no error; when both   *)
(* fail it returns an error-styled span around the HTML-escaped original   *)
(* input with the strict render's error message.  The error is rethrown    *)
(* only with throwOnError and both renders failing.                        *)
C18_RenderNeverThrowsUnlessAsked ==
    Rendered =>
        /\ RenderOut.threw <=> (RenderArgs.throwOnError /\ library = "fails")
        /\ RenderOut.threw => RenderOut.message = StrictError
        /\ library = "renders" =>
              /\ RenderOut.html = StrictMarkup(StripPeriod(Trim(text)), RenderArgs.displayMode)
              /\ RenderOut.error = None
        /\ library = "lenient" =>
              /\ RenderOut.html = LenientMarkup(StripPeriod(Trim(text)), DefaultErrorColor)
              /\ RenderOut.error = None
        /\ (library = "fails" /\ ~RenderArgs.throwOnError) =>
              /\ ErrorSpanOf(RenderOut.html, text)
              /\ RenderOut.error = Some(StrictError)

\* both renders failed on a formula with a character to escape and spaces
\* around it, and the call returned the error span
C18_Witness ==
    /\ Rendered
    /\ returned[1].of = "renderLatex"
    /\ library = "fails"
    /\ ~RenderArgs.throwOnError
    /\ text = " <."
    /\ RenderOut = Gives("<span style=\"color: #cc0000; font-family: monospace;\"> &lt;.</span>",
                         Some("KaTeX parse error"))

(***************************************************************************)
(* Properties of processTextWithLatex called on its own (ProcessSpec).     *)
(***************************************************************************)
\* a text in pieces: the text not yet replaced, and the markup that
\* replaced a span
RawPiece(s) == [raw |-> TRUE, s |-> s]
MarkupPiece(s) == [raw |-> FALSE, s |-> s]

\* the spans of a pass in a piece of text not yet replaced, from position i
RECURSIVE SplitSpans(_, _, _, _)
SplitSpansAfter(s, p, lib, i, m) ==
    IF ~m.ok THEN <<RawPiece(SubSeq(s, i, Len(s)))>>
    ELSE <<RawPiece(SubSeq(s, i, m.at - 1)), MarkupPiece(SpanMarkup(p, m.latex, lib))>>
             \o SplitSpans(s, p, lib, m.next)
SplitSpans(s, p, lib, i) == SplitSpansAfter(s, p, lib, i, FirstSpan(s, p, i))

\* a pass that leaves the markup of the passes before it alone
RECURSIVE PassOverPieces(_, _, _)
PassOverPieces(pieces, p, lib) ==
    IF pieces = <<>> THEN <<>>
    ELSE (IF Head(pieces).raw THEN SplitSpans(Head(pieces).s, p, lib, 1) ELSE <<Head(pieces)>>)
             \o PassOverPieces(Tail(pieces), p, lib)

RECURSIVE PassesOverPieces(_, _, _)
PassesOverPieces(pieces, passes, lib) ==
    IF passes = <<>> THEN pieces
    ELSE PassesOverPieces(PassOverPieces(pieces, Head(passes), lib), Tail(passes), lib)

\* the text in which every span of the input is replaced exactly once, by
\* the first pass in the order of the passes that matches it
ReplacedOnce(t, lib) ==
    Concat([k \in DOMAIN PassesOverPieces(<<RawPiece(fixCorruptedLatexPatterns(unescapeHtmlEntities(t)))>>,
                                         LatexPasses, lib) |->
               PassesOverPieces(<<RawPiece(fixCorruptedLatexPatterns(unescapeHtmlEntities(t)))>>,
                                LatexPasses, lib)[k].s])

Processed == returned # None /\ returned[1].of = "processTextWithLatex"

(* C19: processTextWithLatex applies its passes in the order $$...$$,      *)
(* \[...\], equation, align, \(...\), bare $...$ and replaces each formula  *)
(* span of the input exactly once: no later pass rewrites text inside the  *)
(* markup an earlier pass produced, and a pair of adjacent dollars is      *)
(* never matched as an empty inline span.                                  *)
C19_EachSpanReplacedOnce ==
    Processed => returned[1].value = ReplacedOnce(text, library)

(***************************************************************************)
(* Properties of the export job record (JobSpec).                          *)
(***************************************************************************)
\* ExportJob State Transitions: the statuses that may follow a status
StatusesAfter(status) ==
    CASE status = "pending" -> {"pending", "extracting", "rendering", "generating", "completed", "failed"}
      [] status = "extracting" -> {"extracting", "rendering", "generating", "completed", "failed"}
      [] status = "rendering" -> {"rendering", "generating", "completed", "failed"}
      [] status = "generating" -> {"generating", "completed", "failed"}
      [] status = "completed" -> {"completed"}
      [] status = "failed" -> {"failed"}

\* the record is of the same job before and after the step
SameJob == currentJob # None /\ currentJob' # None /\ currentJob[1].id = currentJob'[1].id

JobStep ==
    /\ SameJob => currentJob'[1].status \in StatusesAfter(currentJob[1].status)
    /\ currentJob' # None => currentJob'[1].progress \in 0..100

(* C20: the status of an export job changes only along pending ->          *)
(* extracting -> rendering -> generating -> completed, or from one of the  *)
(* first four to failed; completed and failed are final, so a job that     *)
(* has become completed never becomes failed; its progress stays within    *)
(* 0..100.                                                                 *)
C20_StatusFollowsTransitions == [][JobStep]_vars

\* the notifications of a click that are of a kind and have a title
ShownBy(click, kind, title) ==
    {k \in 1..Len(click.shown) : click.shown[k].kind = kind /\ click.shown[k].title = title}

\* the click's call of handleExportClick has passed its await of getConfig
PastConfig(click) == click.pc \in {"exporting", "downloading", "returned", "done"}

(* C21: a click on a conversation of more than 1000 messages shows the     *)
(* error Too Many Messages, ends at once and never calls executeExport; on *)
(* more than 500 and at most 1000 messages it shows the warning, shows no  *)
(* such error, and calls executeExport once getConfig has resolved; on at  *)
(* most 500 messages it shows neither that warning nor that error.         *)
C21_LimitsOfExportClick ==
    \A i \in 1..Len(clicks) :
        LET click == clicks[i]
            n == click.messageCount
            refused == ShownBy(click, "error", "Too Many Messages") # {}
            warned == ShownBy(click, "warning", "Large conversation") # {}
        IN  click.success =>
                /\ n > 1000 => refused /\ ~warned /\ ~click.executed /\ click.pc = "done"
                /\ (n > 500 /\ n <= 1000) =>
                       warned /\ ~refused /\ (click.executed <=> PastConfig(click))
                /\ n <= 500 => ~warned /\ ~refused /\ (click.executed <=> PastConfig(click))

\* one click was refused for 1001 messages, another warned at 501 and exported
C21_Witness ==
    \E i, j \in 1..Len(clicks) :
        /\ clicks[i].messageCount = 1001 /\ clicks[i].pc = "done" /\ ~clicks[i].executed
        /\ clicks[j].messageCount = 501 /\ clicks[j].exported /\ clicks[j].pc = "done"
        /\ ShownBy(clicks[j], "warning", "Large conversation") # {}

\* the script has seen the current address and none of its calls of
\* initialize is under way
Settled == lastUrl = href /\ \A i \in 1..Len(inits) : inits[i].pc \in {"skipped", "done"}

(* C22: once the script has seen the current address and its calls have    *)
(* ended, the document holds a toolbar only if the address is a            *)
(* conversation page, and it never holds more than one.                    *)
C22_ToolbarOnlyOnConversationPages ==
    /\ toolbars <= 1
    /\ Settled /\ toolbars > 0 => isConversationPage(href)

\* the call i of initialize on the current page
Waiting(i) == i \in 1..Len(inits) /\ inits[i].pc = "waiting"
Ended(i) == i \in 1..Len(inits) /\ inits[i].pc = "done"

\* a call whose promise has resolved has no connected observer; one that
\* found the content at once never had an observer or a timer
ResolvedIsDisconnected ==
    \A i \in 1..Len(inits) :
        /\ inits[i].pc \in {"resolved", "done"} => inits[i].observer # "observing"
        /\ inits[i].by \in {"observer", "timer"} => inits[i].observer = "disconnected"
        /\ inits[i].by = "content" => inits[i].observer = "none" /\ inits[i].timer = "none"
        /\ inits[i].pc = "waiting" => inits[i].observer = "observing" /\ inits[i].timer = "pending"

\* a step leaves no call waiting whose timer it fired
TimerResolves ==
    \A i \in 1..Len(inits) :
        i \in 1..Len(inits') /\ inits[i].timer = "pending" /\ inits'[i].timer = "fired"
            => inits'[i].pc # "waiting"

\* a step that mutates the document into one with a message element leaves
\* no call waiting
MutationResolves ==
    \A i \in 1..Len(inits) :
        Waiting(i) /\ i \in 1..Len(inits') /\ dom' # dom /\ HasContent(dom')
            => inits'[i].pc # "waiting"

\* the same of the mutations of the child lists below document.body
ChildListMutationResolves ==
    \A i \in 1..Len(inits) :
        Waiting(i) /\ i \in 1..Len(inits') /\ ChildListMutation(dom, dom') /\ HasContent(dom')
            => inits'[i].pc # "waiting"

(* C28 as stated: a waiting call resolves at the first mutation of the     *)
(* document after which an element with data-message-author-role exists.   *)
C28_ResolvesAtFirstMutation == [][MutationResolves]_vars

(* C28, amended: a waiting call resolves at the first mutation of a child  *)
(* list below document.body after which an element with                    *)
(* data-message-author-role exists, and when its timer fires; a resolved   *)
(* call has no connected observer; on a page that is never unloaded every  *)
(* waiting call reaches injectToolbar.                                     *)
C28_WaitAlwaysResolves ==
    /\ []ResolvedIsDisconnected
    /\ [][ChildListMutationResolves /\ TimerResolves]_vars
    /\ \A i \in 1..MaxInits : Waiting(i) ~> Ended(i)

\* on one page a call was resolved by its timer and another by its observer,
\* both injected, and the second found the toolbar of the first
C28_Witness ==
    \E i, j \in 1..Len(inits) :
        /\ inits[i].by = "timer" /\ inits[i].pc = "done" /\ inits[i].observer = "disconnected"
        /\ inits[j].by = "observer" /\ inits[j].pc = "done" /\ inits[j].observer = "disconnected"
        /\ toolbars = 1

\* the value of a field of the configuration in storage
StoredValue(stored, f) == getConfig(stored, FALSE)[f]

\* a call that returns true in this step changes no field it was not given
SaveChangesOnlyGivenFields ==
    \A i \in 1..Len(saves) :
        /\ saves[i].pc = "setting"
        /\ Len(saves') = Len(saves)
        /\ saves'[i].returned = Some(TRUE)
        => \A f \in ConfigFields \ DOMAIN saves[i].config :
               StoredValue(storage', f) = StoredValue(storage, f)

(* C23: under any interleaving a successful call of saveConfig changes     *)
(* only the fields it was given: every other field has after the write     *)
(* the value it had in storage before it.                                  *)
C23_PartialUpdatesUnderInterleaving == [][SaveChangesOnlyGivenFields]_vars

\* the ids of a list of messages are pairwise distinct
DistinctIds(ms) == \A i, j \in 1..Len(ms) : i # j => ms[i].id # ms[j].id

(* C24: the messages of an extracted conversation have pairwise distinct   *)
(* ids.                                                                    *)
C24_MessageIdsAreDistinct ==
    IF result # None
    THEN IF result[1].success THEN DistinctIds(result[1].data[1].messages) ELSE TRUE
    ELSE TRUE

\* the call of handleStartExport a step makes, when it makes one
StartExportStep(installed) ==
    returned' # returned =>
        LET call == returned'[1].value
            r == call.response
        IN  /\ call.selected = 0 => r.type = "EXPORT_ERROR" /\ r.recoverable
            /\ call.selected > 1000 => r.type = "EXPORT_ERROR" /\ ~r.recoverable
            /\ (call.selected = 0 \/ call.selected > 1000) =>
                   currentJob' = currentJob /\ exports' = exports
            /\ call.selected \in 1..1000 =>
                   /\ r.type = "EXPORT_PROGRESS" /\ r.status = "pending" /\ r.progress = 0
                   /\ Len(exports') = Len(exports) + 1
                   /\ r.jobId = Len(exports')
                   /\ Head(exports'[r.jobId].sent) = TabProgress("pending", 0)
                   /\ currentJob' # None
                   /\ currentJob'[1].id = r.jobId
                   /\ <<currentJob'[1].status, currentJob'[1].progress>> = installed

LateUpdatesIgnored ==
    /\ \A j \in 1..Len(exports) :
           exports'[j] # exports[j] /\ ~IsCurrentJob(currentJob, j) => currentJob' = currentJob
    /\ Len(exports') > Len(exports) => IsCurrentJob(currentJob', Len(exports'))

(* C26: once a later START_EXPORT was accepted the job record is the later *)
(* job, and no step of the export of an earlier job changes it; after      *)
(* clearCurrentExportJob the steps of a running export leave it null.      *)
C26_LateUpdatesIgnored == [][LateUpdatesIgnored]_vars

\* the first export has ended after updates that found the second job in
\* the record, which is as the second START_EXPORT left it
C26_Witness ==
    /\ Len(exports) = 2
    /\ exports[1].stale /\ exports[1].pc = "done"
    /\ exports[2].pc = "saving"
    /\ currentJob = Some([NewJob(2, exports[2].format) EXCEPT !.status = "extracting", !.progress = 10])

(* C30: parseTableBlock uses no row twice: the row it took the headers     *)
(* from is none of the data rows it returns (the cells of the tables have  *)
(* pairwise different texts, so a data row with the texts of the headers   *)
(* is the header row).                                                     *)
C30_NoRowUsedTwice ==
    IF returned = None THEN TRUE
    ELSE returned[1].of = "parseTableBlock" =>
             \A i \in 1..Len(returned[1].value.rows) :
                 returned[1].value.rows[i] # returned[1].value.headers

\* the text nodes that are children of the element e and are not blank
DirectTextNodes(h, e) ==
    {n \in 1..Len(h) : h[n].parent = e /\ h[n].type = "text" /\ Trim(h[n].data) # ""}

\* the text occurs in the content of one of the blocks
InSomeBlock(blocks, t) ==
    \E k \in 1..Len(blocks) :
        IF "content" \in DOMAIN blocks[k] THEN Contains(blocks[k].content, t) ELSE FALSE

(* C29: when the content element has child elements, the text of each of   *)
(* its non-blank direct text nodes occurs in the content of one of the     *)
(* blocks parseContentBlocks returns.                                      *)
C29_DirectTextIsKept ==
    (Segmented /\ ChildElements(dom, ContentElement) # <<>> /\ ~Segments.threw) =>
        \A n \in DirectTextNodes(dom, ContentElement) :
            InSomeBlock(Segments.blocks, Trim(dom[n].data))

\* C27: every $$...$$ and $...$ span that cleanTextContent finds after the
\* repair pass is in its output verbatim, with the same delimiters and the
\* same inner text.
BlocksRestored(s, output) ==
    \A k \in 1..Len(latexBlocks(s)) : Contains(output, latexBlocks(s)[k])
C27_SpansRestoredVerbatim ==
    IF returned = None THEN TRUE
    ELSE returned[1].of = "cleanTextContent" => BlocksRestored(text, returned[1].value)
====
